---- MODULE Spec2Model ----
(***************************************************************************)
(* Verification model of futility's "sign" command (futility/cmd_sign.c).  *)
(*                                                                         *)
(* The image buffer is an array of cells.  A cell is the unit in which the *)
(* model reads and copies the buffer: it carries the number a field read   *)
(* at that place yields (a), a second number (b), a digest (d) and the     *)
(* kind of structure it was written as (t), which is what the library's    *)
(* magic/checksum tests look at.  memcpy copies cells, memcmp compares     *)
(* them, and nothing keeps a copy from running past the end of an area.    *)
(***************************************************************************)
EXTENDS Integers, Sequences, FiniteSets, TLC

\* Largest preamble flags value (old preambles and --flags).
MaxFlags == 1
\* Length of each FW_MAIN area in the FMAP.
FwLen == 2

\* enum bios_component
BIOS_FMAP_GBB == 0
BIOS_FMAP_FW_MAIN_A == 1
BIOS_FMAP_FW_MAIN_B == 2
BIOS_FMAP_VBLOCK_A == 3
BIOS_FMAP_VBLOCK_B == 4
NUM_BIOS_COMPONENTS == 5

Components == 0 .. (NUM_BIOS_COMPONENTS - 1)

Cell(t, a, b, d) == [t |-> t, a |-> a, b |-> b, d |-> d]
RawByte(v) == Cell("byte", v, 0, <<>>)

\* ------------------------------------------------------------------------
\* Key material named on the command line.  id 0 is the NULL pointer.
\* ------------------------------------------------------------------------
NoPrivateKey == [id |-> 0, siglen |-> 0]
NormalPrivateKey == [id |-> 1, siglen |-> 1]
DevPrivateKey == [id |-> 2, siglen |-> 2]
NoKeyBlock == [id |-> 0, key_block_size |-> 0]
NormalKeyBlock == [id |-> 1, key_block_size |-> 1]
DevKeyBlock == [id |-> 2, key_block_size |-> 2]
\* The keyblock a previously signed image carries.
OldKeyBlock == [id |-> 3, key_block_size |-> 1]
\* No body signature / preamble (a NULL return).
NoSignature == [data_size |-> 0, signer |-> 0, digest |-> <<>>, ok |-> FALSE]

\* The bytes of a keyblock: a header cell holding key_block_size, then the
\* rest of the block.
KeyBlockCells(kb) ==
    [j \in 1 .. kb.key_block_size |->
        IF j = 1 THEN Cell("kb", kb.id, kb.key_block_size, <<>>)
                 ELSE Cell("kbsig", kb.id, j, <<>>)]

\* The bytes of a firmware preamble: body_signature.data_size (with the
\* digest), flags, then the preamble signature made with the data key.
PreambleCells(p) ==
    [j \in 1 .. p.preamble_size |->
        IF j = 1 THEN Cell("pre", p.body_signature.data_size,
                           p.version, p.body_signature.digest)
        ELSE IF j = 2 THEN Cell("pre", p.flags, p.body_signature.signer, <<>>)
        ELSE Cell("presig", p.signer, j, <<>>)]

\* ------------------------------------------------------------------------
\* Images.
\* ------------------------------------------------------------------------
\* Layout: GBB | VBLOCK_A | FW_MAIN_A | VBLOCK_B | FW_MAIN_B | tail.
\* vlen is the length of each VBLOCK area.
VblockLens == {4, 6}
TailLen == FwLen + 2

AreaOffset(c, vlen) ==
    CASE c = BIOS_FMAP_GBB -> 0
      [] c = BIOS_FMAP_VBLOCK_A -> 1
      [] c = BIOS_FMAP_FW_MAIN_A -> 1 + vlen
      [] c = BIOS_FMAP_VBLOCK_B -> 1 + vlen + FwLen
      [] c = BIOS_FMAP_FW_MAIN_B -> 1 + 2 * vlen + FwLen

AreaSize(c, vlen) ==
    CASE c = BIOS_FMAP_GBB -> 1
      [] c \in {BIOS_FMAP_VBLOCK_A, BIOS_FMAP_VBLOCK_B} -> vlen
      [] c \in {BIOS_FMAP_FW_MAIN_A, BIOS_FMAP_FW_MAIN_B} -> FwLen

ImageLen(vlen) == 1 + 2 * vlen + 2 * FwLen + TailLen

\* What a VBLOCK area holds before signing.
\*   "garbage": no keyblock magic;  "badkey": a keyblock whose data key is
\*   unusable;  "signed": keyblock and preamble of an earlier signing;
\*   "badpre": a good keyblock followed by bytes that are no preamble (each
\*   byte is 1, which is what data_size and flags then read as).
OldVblocks ==
    {[kind |-> "garbage", data_size |-> 0, flags |-> 0],
     [kind |-> "badkey", data_size |-> 0, flags |-> 0],
     [kind |-> "badpre", data_size |-> 1, flags |-> 1]}
    \cup [kind : {"signed"}, data_size : (FwLen - 1) .. (FwLen + 1),
          flags : 0 .. MaxFlags]

OldVblockCell(v, j) ==
    CASE v.kind = "garbage" -> RawByte(0)
      [] v.kind = "badkey" ->
            IF j = 1 THEN Cell("kb", 0, 1, <<>>) ELSE RawByte(0)
      [] v.kind = "badpre" ->
            IF j = 1 THEN KeyBlockCells(OldKeyBlock)[1] ELSE RawByte(1)
      [] v.kind = "signed" ->
            IF j = 1 THEN KeyBlockCells(OldKeyBlock)[1]
            ELSE IF j = 2 THEN Cell("pre", v.data_size, 1, <<>>)
            ELSE IF j = 3 THEN Cell("pre", v.flags, OldKeyBlock.id, <<>>)
            ELSE IF j = 4 THEN Cell("presig", OldKeyBlock.id, 3, <<>>)
            ELSE RawByte(0)

\* FW_MAIN_A is FwLen zero bytes; FW_MAIN_B is the same except that byte
\* number diff (if diff > 0) is one.  The images have the two bodies equal
\* (diff = 0) or different in their last byte only (diff = FwLen), so that
\* they are equal again once both are shrunk.
FwMainCell(c, j, diff) ==
    IF c = BIOS_FMAP_FW_MAIN_B /\ j = diff THEN RawByte(1) ELSE RawByte(0)

InArea(k, c, vlen) ==
    /\ k >= AreaOffset(c, vlen)
    /\ k < AreaOffset(c, vlen) + AreaSize(c, vlen)

MakeImage(vlen, va, vb, diff) ==
    [k \in 0 .. (ImageLen(vlen) - 1) |->
        IF InArea(k, BIOS_FMAP_VBLOCK_A, vlen)
        THEN OldVblockCell(va, k - AreaOffset(BIOS_FMAP_VBLOCK_A, vlen) + 1)
        ELSE IF InArea(k, BIOS_FMAP_VBLOCK_B, vlen)
        THEN OldVblockCell(vb, k - AreaOffset(BIOS_FMAP_VBLOCK_B, vlen) + 1)
        ELSE IF InArea(k, BIOS_FMAP_FW_MAIN_A, vlen)
        THEN FwMainCell(BIOS_FMAP_FW_MAIN_A,
                        k - AreaOffset(BIOS_FMAP_FW_MAIN_A, vlen) + 1, diff)
        ELSE IF InArea(k, BIOS_FMAP_FW_MAIN_B, vlen)
        THEN FwMainCell(BIOS_FMAP_FW_MAIN_B,
                        k - AreaOffset(BIOS_FMAP_FW_MAIN_B, vlen) + 1, diff)
        ELSE RawByte(1)]

\* The FMAP directory of an image: the areas in `present`, each with its
\* offset and size (after fmap_limit_area).
MakeFmap(vlen, present) ==
    [c \in Components |->
        [present |-> c \in present,
         area_offset |-> AreaOffset(c, vlen),
         area_size |-> AreaSize(c, vlen)]]

\* The images signed here: every combination of old VBLOCK contents and
\* FW_MAIN difference in a complete FMAP, with VBLOCK areas that hold the
\* largest new vblock (6) or only the smallest (4); and images whose FMAP
\* lacks one area.
Images ==
    [vlen : VblockLens, present : {Components},
     va : OldVblocks, vb : OldVblocks, diff : {0, FwLen}]
    \cup
    [vlen : {6}, present : {Components \ {c} : c \in Components},
     va : OldVblocks, vb : {[kind |-> "garbage", data_size |-> 0, flags |-> 0]},
     diff : {0}]

\* ------------------------------------------------------------------------
\* Kernel partitions: keyblock | kernel preamble | fill up to the padding |
\* kernel blob.  The blob's first cell is the command line (config).
\* ------------------------------------------------------------------------
\* The vblock padding, in cells (--pad).
PadCells == 6
\* Length of the kernel blob.
BlobLen == 2

KernelPreambleCells(p) ==
    [j \in 1 .. p.preamble_size |->
        IF j = 1 THEN Cell("kpre", p.kernel_version, p.body_load_address,
                           p.body_signature.digest)
        ELSE IF j = 2 THEN Cell("kpre", p.flags, p.has_flags,
                                <<p.body_signature.data_size,
                                  p.body_signature.signer>>)
        ELSE Cell("presig", p.signer, j, <<>>)]

\* option.kloadaddr's default.
CROS_32BIT_ENTRY_ADDR == 1048576
LoadAddrs == {CROS_32BIT_ENTRY_ADDR, 2 * CROS_32BIT_ENTRY_ADDR}

\* The kernel partitions resigned here.  parses = FALSE: no keyblock.
OldKparts ==
    [parses : {TRUE}, kernel_version : 1 .. 2, body_load_address : LoadAddrs,
     flags : 0 .. MaxFlags, has_flags : 0 .. 1]
    \cup
    [parses : {FALSE}, kernel_version : {1},
     body_load_address : {CROS_32BIT_ENTRY_ADDR}, flags : {0},
     has_flags : {0}]

OldKernelPreamble(kp) ==
    [preamble_size |-> 3,
     kernel_version |-> kp.kernel_version,
     body_load_address |-> kp.body_load_address,
     flags |-> kp.flags,
     has_flags |-> kp.has_flags,
     body_signature |->
        [data_size |-> BlobLen, signer |-> OldKeyBlock.id,
         digest |-> [k \in 1 .. BlobLen |-> 0], ok |-> TRUE],
     signer |-> OldKeyBlock.id]

MakeKpart(kp) ==
    [k \in 0 .. (PadCells + BlobLen - 1) |->
        IF ~kp.parses THEN RawByte(0)
        ELSE IF k = 0 THEN KeyBlockCells(OldKeyBlock)[1]
        ELSE IF k <= 3 THEN KernelPreambleCells(OldKernelPreamble(kp))[k]
        ELSE IF k < PadCells THEN RawByte(0)
        ELSE Cell("blob", 0, 0, <<>>)]

\* ------------------------------------------------------------------------
\* The options as the getopt loop of do_sign leaves them.  outfile "" is
\* the NULL pointer; config_data 0 is no --config, bootloader_data 0 no
\* --bootloader; the pem_ fields say whether the option was given.
\* ------------------------------------------------------------------------
DefaultOption ==
    [signprivate |-> NormalPrivateKey,
     keyblock |-> NormalKeyBlock,
     kernel_subkey |-> 1,
     devsignprivate |-> NoPrivateKey,
     devkeyblock |-> NoKeyBlock,
     version |-> 1,
     version_specified |-> FALSE,
     flags |-> 0,
     flags_specified |-> FALSE,
     loemid |-> FALSE,
     bootloader_data |-> 0,
     config_data |-> 0,
     arch |-> "ARCH_UNSPECIFIED",
     fv_specified |-> FALSE,
     kloadaddr |-> CROS_32BIT_ENTRY_ADDR,
     padding |-> PadCells,
     vblockonly |-> FALSE,
     outfile |-> "",
     create_new_outfile |-> FALSE,
     pem_signpriv |-> FALSE,
     pem_algo_specified |-> FALSE,
     pem_external |-> FALSE]

\* --flags / --version given or not.
FlagsChoices ==
    {[specified |-> FALSE, value |-> 0]}
    \cup [specified : {TRUE}, value : 0 .. MaxFlags]
VersionChoices ==
    {[specified |-> FALSE, value |-> 1], [specified |-> TRUE, value |-> 3]}

\* Command lines for a BIOS image: the three required keys given, with
\* every choice of the optional ones when signing in place, and with or
\* without the DEV keys when an output file is named; or a required key
\* missing.
BiosOptions ==
    {[DefaultOption EXCEPT !.devsignprivate = ds, !.devkeyblock = dk,
                           !.flags_specified = f.specified, !.flags = f.value,
                           !.loemid = l] :
        ds \in {NoPrivateKey, DevPrivateKey}, dk \in {NoKeyBlock, DevKeyBlock},
        f \in FlagsChoices, l \in BOOLEAN}
    \cup
    {[DefaultOption EXCEPT !.outfile = "out"],
     [DefaultOption EXCEPT !.outfile = "out",
                           !.devsignprivate = DevPrivateKey,
                           !.devkeyblock = DevKeyBlock]}

BiosOptionsMissing ==
    {[DefaultOption EXCEPT !.signprivate = s, !.keyblock = b,
                           !.kernel_subkey = k] :
        s \in {NoPrivateKey, NormalPrivateKey},
        b \in {NoKeyBlock, NormalKeyBlock}, k \in 0 .. 1}
    \ {DefaultOption}

\* Command lines for resigning a kernel partition.
KernOptions ==
    {[DefaultOption EXCEPT !.signprivate = s, !.keyblock = b,
                           !.version_specified = v.specified,
                           !.version = v.value,
                           !.flags_specified = f.specified, !.flags = f.value,
                           !.config_data = c, !.kloadaddr = a,
                           !.vblockonly = vo, !.outfile = o] :
        s \in {NoPrivateKey, NormalPrivateKey},
        b \in {NoKeyBlock, NormalKeyBlock},
        v \in VersionChoices, f \in FlagsChoices, c \in 0 .. 1,
        a \in LoadAddrs, vo \in BOOLEAN, o \in {"", "out"}}

\* What else the getopt loop leaves, and what is in the input file:
\*   parse_errors  errorcnt after the loop (invalid values, unreadable keys)
\*   helpind       --help was given
\*   type_opt      option.type: the --type given, or FILE_TYPE_UNKNOWN
\*   infile        the --infile given, or "" (NULL)
\*   positional    argc - optind, the arguments that are no options
\*   sniffed       the type futil_file_type finds in the input file, or
\*                 "fail" when it cannot read the file
PlainArgs(sniffed) ==
    [parse_errors |-> 0, helpind |-> FALSE, type_opt |-> "FILE_TYPE_UNKNOWN",
     infile |-> "in", positional |-> 0, sniffed |-> sniffed]

\* Input files other than the BIOS images and kernel partitions above: raw
\* bytes (a firmware body, a vmlinuz), a keyblock file, a public key, and a
\* file that cannot be read.
FileKinds == {"raw", "bios", "kpart", "keyblock", "pubkey", "unreadable"}

SniffOf(kind) ==
    CASE kind = "raw" -> "FILE_TYPE_UNKNOWN"
      [] kind = "bios" -> "FILE_TYPE_BIOS_IMAGE"
      [] kind = "kpart" -> "FILE_TYPE_KERN_PREAMBLE"
      [] kind = "keyblock" -> "FILE_TYPE_KEYBLOCK"
      [] kind = "pubkey" -> "FILE_TYPE_PUBKEY"
      [] kind = "unreadable" -> "fail"

GarbageVblock == [kind |-> "garbage", data_size |-> 0, flags |-> 0]

FileOf(kind) ==
    CASE kind = "bios" ->
            [exists |-> TRUE,
             data |-> MakeImage(6, GarbageVblock, GarbageVblock, 0)]
      [] kind = "kpart" ->
            [exists |-> TRUE,
             data |-> MakeKpart([parses |-> TRUE, kernel_version |-> 1,
                                 body_load_address |-> CROS_32BIT_ENTRY_ADDR,
                                 flags |-> 0, has_flags |-> 1])]
      [] kind = "unreadable" -> [exists |-> FALSE, data |-> <<>>]
      [] OTHER ->
            [exists |-> TRUE,
             data |-> [k \in 0 .. (BlobLen - 1) |-> RawByte(1)]]

\* The --type values tried on a file of each kind: none, the raw types,
\* the file's own type, and a type sign has no handler for.
TypeOpts(kind) ==
    {"FILE_TYPE_UNKNOWN", "FILE_TYPE_RAW_FIRMWARE", "FILE_TYPE_KEYBLOCK"}
    \cup (IF kind = "raw" THEN {"FILE_TYPE_RAW_KERNEL"} ELSE {})
    \cup (IF kind = "bios" THEN {"FILE_TYPE_BIOS_IMAGE"} ELSE {})

\* Command lines that exercise the type inference and the per-type checks:
\* with or without the signing key, the kernel subkey, --fv, --version, the
\* three raw-kernel options (none, --config only, all), an output file, and
\* --pem_signpriv with or without --pem_algo.
FrontOptions ==
    {[DefaultOption EXCEPT !.signprivate = s, !.kernel_subkey = k,
                           !.fv_specified = fv,
                           !.version_specified = v.specified,
                           !.version = v.value,
                           !.config_data = IF ko = "none" THEN 0 ELSE 1,
                           !.bootloader_data = IF ko = "all" THEN 1 ELSE 0,
                           !.arch = IF ko = "all" THEN "ARCH_X86"
                                    ELSE "ARCH_UNSPECIFIED",
                           !.outfile = o, !.pem_signpriv = pem # "none",
                           !.pem_algo_specified = pem = "key_algo"] :
        s \in {NoPrivateKey, NormalPrivateKey}, k \in 0 .. 1,
        fv \in BOOLEAN, v \in VersionChoices,
        ko \in {"none", "config", "all"}, o \in {"", "out"},
        pem \in {"none", "key", "key_algo"}}

\* Command lines with errors counted by the getopt loop, with --help,
\* without an input file, or with arguments left over.
FrontArgs ==
    [parse_errors : 0 .. 1, helpind : BOOLEAN,
     type_opt : {"FILE_TYPE_UNKNOWN"}, infile : {"", "in"},
     positional : 0 .. 3, sniffed : {"FILE_TYPE_BIOS_IMAGE"}]

VARIABLES
    sh,         \* make_dev_firmware.sh: its flags, variables, files, output
    args,       \* what the getopt loop left besides option (never changes)
    leftover,   \* argc - optind
    log,        \* what do_sign has done to files, and which calls failed
    freed,      \* the keys of option that were free()d
    cmdline,    \* the options as the command line gave them
    files,      \* the files on disk, by path
    type,       \* option.type, the kind of file being signed
    infile,     \* do_sign's infile (a path)
    inout_file_count,
    errorcnt,   \* do_sign's errorcnt
    ifd,        \* do_sign's ifd: -1, or an open descriptor
    mapping,    \* do_sign's mapping: MAP_RO or MAP_RW
    rv,         \* what do_sign returned
    kres,       \* what ft_sign_kern_preamble read and made
    image,      \* buf[0 .. len-1], the mapped file
    image0,     \* the buffer as futil_map_file returned it
    fmap,       \* the FMAP directory found in the buffer
    option,     \* static struct local_data_s option
    state,      \* struct sign_state_s state (ft_sign_bios)
    i,          \* loop counter of ft_sign_bios
    retval,     \* retval of ft_sign_bios
    end_retval, \* retval of sign_bios_at_end
    pc,         \* position in ft_sign_bios / sign_bios_at_end
    akey,       \* the key and keyblock sign_bios_at_end chose for slot A
    newpre,     \* per VBLOCK: what write_new_preamble wrote there, if it did
    loem,       \* per VBLOCK: the contents of the LOEM file, if written
    trace       \* the observations and writes made so far, in order

\* do_sign's own variables, and those of the BIOS handler.
signvars == <<sh, args, leftover, log, freed, cmdline, files, type, infile, inout_file_count, errorcnt, ifd, mapping,
              rv, kres>>
biosvars == <<fmap, state, i, end_retval, akey, newpre, loem, trace>>

vars == <<sh, args, leftover, log, freed, cmdline, files, type, infile, inout_file_count, errorcnt, ifd, mapping, rv,
          kres, image, image0, fmap, option, state, i, retval, end_retval,
          pc, akey, newpre, loem, trace>>


NoPreamble ==
    [preamble_size |-> 0, version |-> 0, flags |-> 0,
     body_signature |-> NoSignature, signer |-> 0]

\* memset(&state, 0, sizeof(state)); a buf of -1 is the NULL pointer.
ZeroState ==
    [c |-> 0,
     area |-> [c \in Components |-> [buf |-> -1, len |-> 0, is_valid |-> 0]]]

NoFile == [exists |-> FALSE, data |-> <<>>]

NoKernelPreamble ==
    [preamble_size |-> 0, kernel_version |-> 0, body_load_address |-> 0,
     flags |-> 0, has_flags |-> 0, body_signature |-> NoSignature,
     signer |-> 0]

\* Nothing read or made by ft_sign_kern_preamble yet.
NoKres ==
    [done |-> FALSE, old |-> NoKernelPreamble, load_address |-> 0,
     keyblock |-> NoKeyBlock, preamble |-> NoKernelPreamble]

\* The state when the getopt loop of do_sign has ended with no error and the
\* kind of the input file is known: a BIOS image or a kernel partition.
InitCommon ==
    /\ cmdline = option
    /\ type = args.type_opt
    /\ infile = args.infile
    /\ leftover = args.positional
    /\ inout_file_count = (IF args.infile = "" THEN 0 ELSE 1)
                          + (IF option.outfile = "" THEN 0 ELSE 1)
    /\ errorcnt = args.parse_errors
    /\ log = {}
    /\ freed = {}
    /\ ifd = -1
    /\ mapping = "none"
    /\ rv = -1
    /\ kres = NoKres
    /\ image = <<>>
    /\ image0 = <<>>
    /\ state = ZeroState
    /\ i = 0
    /\ retval = 0
    /\ end_retval = 0
    /\ pc = "start"
    /\ akey = [signkey |-> NoPrivateKey, keyblock |-> NoKeyBlock]
    /\ newpre = [c \in {BIOS_FMAP_VBLOCK_A, BIOS_FMAP_VBLOCK_B} |->
                    [written |-> FALSE, signkey |-> NoPrivateKey,
                     keyblock |-> NoKeyBlock, preamble |-> NoPreamble]]
    /\ loem = [c \in {BIOS_FMAP_VBLOCK_A, BIOS_FMAP_VBLOCK_B} |->
                    [written |-> FALSE, data |-> <<>>]]
    /\ trace = <<>>

InitBios ==
    /\ args = PlainArgs("FILE_TYPE_BIOS_IMAGE")
    /\ \E im \in Images :
          /\ files = [p \in {"in", "out"} |->
                IF p = "in"
                THEN [exists |-> TRUE,
                      data |-> MakeImage(im.vlen, im.va, im.vb, im.diff)]
                ELSE NoFile]
          /\ fmap = MakeFmap(im.vlen, im.present)
          /\ \/ option \in BiosOptions
             \/ /\ option \in BiosOptionsMissing
                /\ im.vlen = 6 /\ im.diff = 0 /\ im.present = Components
                /\ im.va.kind = "garbage" /\ im.vb.kind = "garbage"

InitKern ==
    /\ args = PlainArgs("FILE_TYPE_KERN_PREAMBLE")
    /\ \E kp \in OldKparts :
          files = [p \in {"in", "out"} |->
                IF p = "in" THEN [exists |-> TRUE, data |-> MakeKpart(kp)]
                ELSE NoFile]
    /\ fmap = MakeFmap(6, {})
    /\ option \in KernOptions

\* Files of every kind with the command lines of FrontOptions, and a BIOS
\* image with those of FrontArgs.
InitFront ==
    /\ fmap = MakeFmap(6, Components)
    /\ \/ \E kind \in FileKinds :
             /\ files = [p \in {"in", "out"} |->
                            IF p = "in" THEN FileOf(kind) ELSE NoFile]
             /\ \E to \in TypeOpts(kind) :
                   args = [PlainArgs(SniffOf(kind)) EXCEPT !.type_opt = to]
             /\ option \in FrontOptions
       \/ /\ files = [p \in {"in", "out"} |->
                        IF p = "in" THEN FileOf("bios") ELSE NoFile]
          /\ args \in FrontArgs
          /\ option \in {DefaultOption,
                          [DefaultOption EXCEPT !.signprivate = NoPrivateKey],
                          [DefaultOption EXCEPT !.devsignprivate = DevPrivateKey,
                                                !.devkeyblock = DevKeyBlock]}

\* make_dev_firmware.sh is not running.
ShIdle == [pc |-> "idle"]

Init == (InitBios \/ InitKern \/ InitFront) /\ InitCommon /\ sh = ShIdle

\* ------------------------------------------------------------------------
\* Library calls, by what they return.
\* ------------------------------------------------------------------------
\* KeyBlockVerify(key_block, len, NULL, 1): magic, size within len, checksum.
KeyBlockVerify(img, buf, len) ==
    LET h == img[buf] IN
    /\ len >= 1
    /\ h.t = "kb"
    /\ h.b >= 1
    /\ h.b <= len
    /\ \A j \in 2 .. h.b : img[buf + j - 1] = Cell("kbsig", h.a, j, <<>>)

\* PublicKeyToRSA(&key_block->data_key) # NULL
PublicKeyToRSA(img, buf) == img[buf].a # 0

\* CalculateSignature(data, size, key): a signature by `key` over exactly
\* data[0 .. size-1].
CalculateSignature(img, buf, len, key) ==
    [data_size |-> len,
     signer |-> key.id,
     digest |-> [k \in 1 .. len |-> img[buf + k - 1].a],
     ok |-> TRUE]

CreateFirmwarePreamble(version, kernel_subkey, body_sig, signkey, flags) ==
    [preamble_size |-> 2 + signkey.siglen,
     version |-> version,
     flags |-> flags,
     body_signature |-> body_sig,
     signer |-> signkey.id]

\* memcpy(img + at, cells, Len(cells))
Memcpy(img, at, cells) ==
    [k \in DOMAIN img |->
        IF k >= at /\ k < at + Len(cells) THEN cells[k - at + 1] ELSE img[k]]

\* ------------------------------------------------------------------------
\* The FMAP area handlers.
\* ------------------------------------------------------------------------
\* fmap_func[]: which handler an area gets.
fmap_func(c) ==
    CASE c = BIOS_FMAP_GBB -> "none"
      [] c \in {BIOS_FMAP_FW_MAIN_A, BIOS_FMAP_FW_MAIN_B} -> "fmap_fw_main"
      [] c \in {BIOS_FMAP_VBLOCK_A, BIOS_FMAP_VBLOCK_B} -> "fmap_fw_preamble"

\* ft_sign_bios, "Update the state we're passing around".
RecordArea(st, c) ==
    [st EXCEPT !.c = c,
               !.area[c].buf = fmap[c].area_offset,
               !.area[c].len = fmap[c].area_size]

fmap_fw_main(st) ==
    [state |-> [st EXCEPT !.area[st.c].is_valid = 1], rc |-> 0]

\* Variant: both cases of the switch take FW_MAIN_A.
FwBodyOfAlwaysA(c) == BIOS_FMAP_FW_MAIN_A

\* The FW_MAIN area that belongs to the VBLOCK being looked at.
FwBodyOf(c) ==
    IF c = BIOS_FMAP_VBLOCK_A THEN BIOS_FMAP_FW_MAIN_A ELSE BIOS_FMAP_FW_MAIN_B

\* Does the VBLOCK at buf hold a keyblock and data key the handler accepts?
OldVblockParses(img, buf, len) ==
    KeyBlockVerify(img, buf, len) /\ PublicKeyToRSA(img, buf)
\* preamble->body_signature.data_size and preamble->flags of that VBLOCK.
OldDataSize(img, buf) == img[buf + img[buf].b].a
OldFlags(img, buf) == img[buf + img[buf].b + 1].a

\* Preserve the flags if they're not specified (case BIOS_FMAP_VBLOCK_A).
PreserveFlags(c, opt, buf) ==
    IF c = BIOS_FMAP_VBLOCK_A /\ ~opt.flags_specified
    THEN [opt EXCEPT !.flags = OldFlags(image, buf)]
    ELSE opt

\* Variant: the firmware size is read but the area's length is not updated.
fmap_fw_preamble_NoShrink(buf, len, st, opt) ==
    IF ~OldVblockParses(image, buf, len)
    THEN [state |-> [st EXCEPT !.area[st.c].is_valid = 1],
          option |-> opt, rc |-> 0, shrunk |-> FALSE]
    ELSE LET fw_size == OldDataSize(image, buf)
             fw == FwBodyOf(st.c)
             opt1 == PreserveFlags(st.c, opt, buf)
         IN  IF fw_size > st.area[fw].len
             THEN [state |-> st, option |-> opt1, rc |-> 1, shrunk |-> FALSE]
             ELSE [state |-> [st EXCEPT !.area[st.c].is_valid = 1],
                   option |-> opt1, rc |-> 0, shrunk |-> TRUE]

\* Variant: the firmware size is not compared with the area's length.
fmap_fw_preamble_NoSizeCheck(buf, len, st, opt) ==
    IF ~OldVblockParses(image, buf, len)
    THEN [state |-> [st EXCEPT !.area[st.c].is_valid = 1],
          option |-> opt, rc |-> 0, shrunk |-> FALSE]
    ELSE LET fw_size == OldDataSize(image, buf)
             fw == FwBodyOf(st.c)
             opt1 == PreserveFlags(st.c, opt, buf)
         IN  [state |-> [st EXCEPT !.area[fw].len = fw_size,
                                   !.area[st.c].is_valid = 1],
              option |-> opt1, rc |-> 0, shrunk |-> TRUE]

fmap_fw_preamble(buf, len, st, opt) ==
    IF ~OldVblockParses(image, buf, len)
    THEN \* whatever:
         [state |-> [st EXCEPT !.area[st.c].is_valid = 1],
          option |-> opt, rc |-> 0, shrunk |-> FALSE]
    ELSE LET fw_size == OldDataSize(image, buf)
             fw == FwBodyOf(st.c)
             opt1 == PreserveFlags(st.c, opt, buf)
         IN  IF fw_size > st.area[fw].len
             THEN [state |-> st, option |-> opt1, rc |-> 1, shrunk |-> FALSE]
             ELSE [state |-> [st EXCEPT !.area[fw].len = fw_size,
                                        !.area[st.c].is_valid = 1],
                   option |-> opt1, rc |-> 0, shrunk |-> TRUE]

Event(op, c) == [op |-> op, c |-> c]

\* ------------------------------------------------------------------------
\* ft_sign_bios: the walk over the FMAP areas.
\* ------------------------------------------------------------------------
\* Neither name of area i is in the FMAP.
WalkNotFound ==
    /\ pc = "walk"
    /\ i < NUM_BIOS_COMPONENTS
    /\ ~fmap[i].present
    /\ i' = i + 1
    /\ UNCHANGED <<signvars, image, image0, fmap, option, state, retval, end_retval,
                   pc, akey, newpre, loem, trace>>

\* Area i is found and has no handler (fmap_func[i] is 0).
WalkNoHandler ==
    /\ pc = "walk"
    /\ i < NUM_BIOS_COMPONENTS
    /\ fmap[i].present
    /\ fmap_func(i) = "none"
    /\ state' = RecordArea(state, i)
    /\ i' = i + 1
    /\ UNCHANGED <<signvars, image, image0, fmap, option, retval, end_retval,
                   pc, akey, newpre, loem, trace>>

WalkFwMain ==
    /\ pc = "walk"
    /\ i < NUM_BIOS_COMPONENTS
    /\ fmap[i].present
    /\ fmap_func(i) = "fmap_fw_main"
    /\ LET r == fmap_fw_main(RecordArea(state, i))
       IN  /\ state' = r.state
           /\ retval' = retval + r.rc
    /\ trace' = trace \o <<Event("record", i), Event("valid", i)>>
    /\ i' = i + 1
    /\ UNCHANGED <<signvars, image, image0, fmap, option, end_retval,
                   pc, akey, newpre, loem>>

WalkFwPreamble ==
    /\ pc = "walk"
    /\ i < NUM_BIOS_COMPONENTS
    /\ fmap[i].present
    /\ fmap_func(i) = "fmap_fw_preamble"
    /\ LET st == RecordArea(state, i)
           r == fmap_fw_preamble(st.area[i].buf, st.area[i].len, st, option)
       IN  /\ state' = r.state
           /\ option' = r.option
           /\ retval' = retval + r.rc
           /\ trace' = trace
                  \o <<Event("record", i)>>
                  \o (IF r.shrunk THEN <<Event("shrink", FwBodyOf(i))>>
                                  ELSE <<>>)
                  \o (IF r.state.area[i].is_valid = 1
                      THEN <<Event("valid", i)>> ELSE <<>>)
    /\ i' = i + 1
    /\ UNCHANGED <<signvars, image, image0, fmap, end_retval, pc, akey, newpre, loem>>

\* ------------------------------------------------------------------------
\* sign_bios_at_end
\* ------------------------------------------------------------------------
\* Variant: the test looks at buf (area found) instead of is_valid (handler
\* accepted it).
AllAreasValidByBuf(st) ==
    /\ st.area[BIOS_FMAP_VBLOCK_A].buf # -1
    /\ st.area[BIOS_FMAP_VBLOCK_B].buf # -1
    /\ st.area[BIOS_FMAP_FW_MAIN_A].buf # -1
    /\ st.area[BIOS_FMAP_FW_MAIN_B].buf # -1

AllAreasValid(st) ==
    /\ st.area[BIOS_FMAP_VBLOCK_A].is_valid = 1
    /\ st.area[BIOS_FMAP_VBLOCK_B].is_valid = 1
    /\ st.area[BIOS_FMAP_FW_MAIN_A].is_valid = 1
    /\ st.area[BIOS_FMAP_FW_MAIN_B].is_valid = 1

\* memcmp(a, b, n) # 0
Memcmp(a, b, n) == \E k \in 0 .. (n - 1) : image[a + k] # image[b + k]

\* Do A & B differ ?
FwDiffer(st) ==
    LET fw_a == st.area[BIOS_FMAP_FW_MAIN_A]
        fw_b == st.area[BIOS_FMAP_FW_MAIN_B]
    IN  \/ fw_a.len # fw_b.len
        \/ Memcmp(fw_a.buf, fw_b.buf, fw_a.len)

\* Variant: DEV keys count as missing only when both are.
DevKeysMissingBoth(opt) ==
    /\ opt.devsignprivate.id = 0
    /\ opt.devkeyblock.id = 0

DevKeysMissing(opt) ==
    \/ opt.devsignprivate.id = 0
    \/ opt.devkeyblock.id = 0

\* Variant: slot A gets the normal keys whatever the bodies are.
SlotAKeysNormal(differ, opt) ==
    [signkey |-> opt.signprivate, keyblock |-> opt.keyblock]

\* The key and keyblock for slot A.
SlotAKeys(differ, opt) ==
    IF differ
    THEN [signkey |-> opt.devsignprivate, keyblock |-> opt.devkeyblock]
    ELSE [signkey |-> opt.signprivate, keyblock |-> opt.keyblock]

\* FW B is always normal keys.
SlotBKeys(opt) == [signkey |-> opt.signprivate, keyblock |-> opt.keyblock]

AtEnd == pc = "walk" /\ i = NUM_BIOS_COMPONENTS

\* "Something's wrong. Not changing anything"
SignBiosNotValid ==
    /\ AtEnd
    /\ ~AllAreasValid(state)
    /\ retval' = retval + 1
    /\ pc' = "signed"
    /\ UNCHANGED <<signvars, image, image0, fmap, option, state, i, end_retval,
                   akey, newpre, loem, trace>>

\* "FW A & B differ. DEV keys are required."
SignBiosDevKeysRequired ==
    /\ AtEnd
    /\ AllAreasValid(state)
    /\ FwDiffer(state)
    /\ DevKeysMissing(option)
    /\ trace' = Append(trace, Event("compare", BIOS_FMAP_FW_MAIN_A))
    /\ retval' = retval + 1
    /\ pc' = "signed"
    /\ UNCHANGED <<signvars, image, image0, fmap, option, state, i, end_retval,
                   akey, newpre, loem>>

SignBiosChooseKeys ==
    /\ AtEnd
    /\ AllAreasValid(state)
    /\ ~(FwDiffer(state) /\ DevKeysMissing(option))
    /\ trace' = Append(trace, Event("compare", BIOS_FMAP_FW_MAIN_A))
    /\ akey' = SlotAKeys(FwDiffer(state), option)
    /\ pc' = "write_a"
    /\ UNCHANGED <<signvars, image, image0, fmap, option, state, i, retval, end_retval,
                   newpre, loem>>

\* write_new_preamble(vblock, fw_body, signkey, keyblock); made is FALSE
\* when CalculateSignature or CreateFirmwarePreamble returns NULL.
WriteNewPreamble(c, keys, made) ==
    LET vblock == state.area[c]
        fw_body == state.area[FwBodyOf(c)]
        body_sig == CalculateSignature(image, fw_body.buf, fw_body.len,
                                       keys.signkey)
        preamble == CreateFirmwarePreamble(option.version,
                        option.kernel_subkey, body_sig, keys.signkey,
                        option.flags)
        more == keys.keyblock.key_block_size
    IN  IF ~made
        THEN /\ end_retval' = 1
             /\ UNCHANGED <<image, newpre, trace>>
        ELSE /\ image' = Memcpy(Memcpy(image, vblock.buf,
                                       KeyBlockCells(keys.keyblock)),
                                vblock.buf + more, PreambleCells(preamble))
             /\ newpre' = [newpre EXCEPT ![c] =
                    [written |-> TRUE, signkey |-> keys.signkey,
                     keyblock |-> keys.keyblock, preamble |-> preamble]]
             /\ trace' = Append(trace, Event("write", c))
             /\ UNCHANGED end_retval

\* Variant: the two calls in the other order.
VblockWrittenSwapped(step) ==
    IF step = "write_a" THEN BIOS_FMAP_VBLOCK_B ELSE BIOS_FMAP_VBLOCK_A

\* The VBLOCK the first and the second write_new_preamble call are given.
VblockWritten(step) ==
    IF step = "write_a" THEN BIOS_FMAP_VBLOCK_A ELSE BIOS_FMAP_VBLOCK_B

WriteNewPreambleA ==
    /\ pc = "write_a"
    /\ \E made \in BOOLEAN : WriteNewPreamble(VblockWritten(pc), akey, made)
    /\ pc' = "write_b"
    /\ UNCHANGED <<signvars, image0, fmap, option, state, i, retval, akey, loem>>

WriteNewPreambleB ==
    /\ pc = "write_b"
    /\ \E made \in BOOLEAN :
          WriteNewPreamble(VblockWritten(pc), SlotBKeys(option), made)
    /\ pc' = IF option.loemid THEN "loem_a" ELSE "return"
    /\ UNCHANGED <<signvars, image0, fmap, option, state, i, retval, akey, loem>>

\* Variant: the last byte of the area is left out.
LoemBytesShort(vblock) ==
    [k \in 1 .. (vblock.len - 1) |-> image[vblock.buf + k - 1]]

\* fwrite(vblock->buf, vblock->len, 1, fp): the bytes the file gets.
LoemBytes(vblock) ==
    [k \in 1 .. vblock.len |-> image[vblock.buf + k - 1]]

\* write_loem(ab, vblock); result is "ok", or the call that failed.
WriteLoem(c, result) ==
    LET vblock == state.area[c] IN
    CASE result = "ok" ->
            /\ loem' = [loem EXCEPT ![c] =
                  [written |-> TRUE, data |-> LoemBytes(vblock)]]
            /\ UNCHANGED end_retval
      [] result = "fopen" ->
            /\ end_retval' = 1
            /\ UNCHANGED loem
      [] result = "fwrite" ->
            /\ loem' = [loem EXCEPT ![c] = [written |-> TRUE, data |-> <<>>]]
            /\ end_retval' = 1
      [] result = "fclose" ->
            /\ loem' = [loem EXCEPT ![c] =
                  [written |-> TRUE, data |-> LoemBytes(vblock)]]
            /\ end_retval' = 1

WriteLoemA ==
    /\ pc = "loem_a"
    /\ \E result \in {"ok", "fopen", "fwrite", "fclose"} :
          WriteLoem(BIOS_FMAP_VBLOCK_A, result)
    /\ pc' = "loem_b"
    /\ UNCHANGED <<signvars, image, image0, fmap, option, state, i, retval, akey,
                   newpre, trace>>

WriteLoemB ==
    /\ pc = "loem_b"
    /\ \E result \in {"ok", "fopen", "fwrite", "fclose"} :
          WriteLoem(BIOS_FMAP_VBLOCK_B, result)
    /\ pc' = "return"
    /\ UNCHANGED <<signvars, image, image0, fmap, option, state, i, retval, akey,
                   newpre, trace>>

\* return retval; and retval += sign_bios_at_end(&state) in ft_sign_bios.
SignBiosAtEndReturn ==
    /\ pc = "return"
    /\ retval' = retval + end_retval
    /\ pc' = "signed"
    /\ UNCHANGED <<signvars, image, image0, fmap, option, state, i, end_retval, akey,
                   newpre, loem, trace>>

\* ------------------------------------------------------------------------
\* ft_sign_kern_preamble: resigning an existing kernel partition.
\* ------------------------------------------------------------------------
\* UnpackKPart: the keyblock and preamble at the start of the partition.
KPartParses(img, len) ==
    /\ KeyBlockVerify(img, 0, len)
    /\ img[0].b + 1 < len
    /\ img[img[0].b].t = "kpre"

KPartKeyBlock(img) == [id |-> img[0].a, key_block_size |-> img[0].b]

KPartPreamble(img) ==
    LET p1 == img[img[0].b]
        p2 == img[img[0].b + 1]
    IN  [preamble_size |-> 3,
         kernel_version |-> p1.a,
         body_load_address |-> p1.b,
         flags |-> p2.a,
         has_flags |-> p2.b,
         body_signature |->
            [data_size |-> p2.d[1], signer |-> p2.d[2], digest |-> p1.d,
             ok |-> TRUE],
         signer |-> OldKeyBlock.id]

\* UpdateKernelBlobConfig: the command line is the first cell of the blob.
UpdateKernelBlobConfig(img, kblob, config) ==
    [img EXCEPT ![kblob] = Cell("blob", config, 0, <<>>)]

\* SignKernelBlob: the preamble of the new vblock.
SignKernelBlob(img, kblob, kblob_size, version, load_address, signkey, flags) ==
    [preamble_size |-> 2 + signkey.siglen,
     kernel_version |-> version,
     body_load_address |-> load_address,
     flags |-> flags,
     has_flags |-> 1,
     body_signature |-> CalculateSignature(img, kblob, kblob_size, signkey),
     signer |-> signkey.id]

\* The vblock: keyblock, preamble, zero fill up to the padding.
VblockCells(keyblock, preamble, padding) ==
    [j \in 1 .. padding |->
        IF j <= keyblock.key_block_size THEN KeyBlockCells(keyblock)[j]
        ELSE IF j <= keyblock.key_block_size + preamble.preamble_size
        THEN KernelPreambleCells(preamble)[j - keyblock.key_block_size]
        ELSE RawByte(0)]

\* WriteSomeParts(outfile, part1, part2): the file it leaves.
WriteSomeParts(part1, part2) ==
    [exists |-> TRUE,
     data |-> [k \in 0 .. (Len(part1) + Len(part2) - 1) |->
                 IF k < Len(part1) THEN part1[k + 1]
                 ELSE part2[k - Len(part1) + 1]]]

\* Variant: --kloadaddr is honoured.
ResignLoadAddressFromOption(opt, preamble) == opt.kloadaddr

\* "We don't let --kloadaddr change when resigning"
ResignLoadAddress(opt, preamble) == preamble.body_load_address

\* Variant: the version of the existing preamble is not carried over.
ResignVersionFromOption(opt, preamble) == opt.version

\* "Preserve the version unless a new one is given"
ResignVersion(opt, preamble) ==
    IF ~opt.version_specified THEN preamble.kernel_version ELSE opt.version

\* "Preserve the flags if not specified", for a preamble that has flags
\* (VbKernelHasFlags).
ResignFlags(opt, preamble) ==
    IF preamble.has_flags = 1 /\ ~opt.flags_specified
    THEN preamble.flags ELSE opt.flags

\* "Replace the keyblock if asked"
ResignKeyblock(opt, old_keyblock) ==
    IF opt.keyblock.id # 0 THEN opt.keyblock ELSE old_keyblock

\* The whole handler.  config_ok, signed and written say whether
\* UpdateKernelBlobConfig, SignKernelBlob and WriteSomeParts succeed.
FtSignKernPreamble ==
    /\ pc = "kern"
    /\ pc' = "signed"
    /\ \E config_ok \in BOOLEAN, signed \in BOOLEAN, written \in BOOLEAN :
        LET kpart_size == option.padding + BlobLen
            kblob == option.padding
        IN
        IF ~KPartParses(image, kpart_size)
        THEN \* "Unable to unpack kernel partition"
             /\ retval' = 1
             /\ UNCHANGED <<option, image, files, kres>>
        ELSE
        LET old_keyblock == KPartKeyBlock(image)
            preamble == KPartPreamble(image)
            kblob_size == preamble.body_signature.data_size
            opt1 == [option EXCEPT
                        !.kloadaddr = ResignLoadAddress(option, preamble)]
        IN
        IF option.config_data # 0 /\ ~config_ok
        THEN \* "Unable to update config"
             /\ retval' = 1
             /\ option' = opt1
             /\ UNCHANGED <<image, files, kres>>
        ELSE
        LET image1 == IF option.config_data # 0
                      THEN UpdateKernelBlobConfig(image, kblob,
                                                  option.config_data)
                      ELSE image
            opt2 == [opt1 EXCEPT
                        !.version = ResignVersion(opt1, preamble),
                        !.flags = ResignFlags(opt1, preamble)]
            keyblock == ResignKeyblock(option, old_keyblock)
            new_preamble == SignKernelBlob(image1, kblob, kblob_size,
                                opt2.version, opt2.kloadaddr,
                                opt2.signprivate, opt2.flags)
            vblock_data == VblockCells(keyblock, new_preamble, opt2.padding)
            kblob_data == [k \in 1 .. kblob_size |-> image1[kblob + k - 1]]
        IN
        /\ option' = opt2
        /\ IF ~signed
           THEN \* "Unable to sign kernel blob"
                /\ retval' = 1
                /\ image' = image1
                /\ UNCHANGED <<files, kres>>
           ELSE /\ kres' = [done |-> TRUE, old |-> preamble,
                            load_address |-> opt2.kloadaddr,
                            keyblock |-> keyblock,
                            preamble |-> new_preamble]
                /\ IF option.create_new_outfile
                   THEN /\ image' = image1
                        /\ IF written
                           THEN /\ files' = [files EXCEPT ![option.outfile] =
                                     WriteSomeParts(vblock_data,
                                        IF option.vblockonly THEN <<>>
                                        ELSE kblob_data)]
                                /\ retval' = 0
                           ELSE /\ retval' = 1
                                /\ UNCHANGED files
                   ELSE /\ image' = Memcpy(image1, 0, vblock_data)
                        /\ retval' = 0
                        /\ UNCHANGED files
    /\ UNCHANGED <<sh, args, leftover, log, freed, cmdline, type, infile,
                   inout_file_count, errorcnt, ifd, mapping, rv, image0,
                   biosvars>>

\* ------------------------------------------------------------------------
\* do_sign, from the end of the getopt loop.
\* ------------------------------------------------------------------------
\* return !!errorcnt
ExitCode(cnt) == IF cnt # 0 THEN 1 ELSE 0

\* if (helpind) { print_help(argc, argv); return !!errorcnt; }
DoSignHelp ==
    /\ pc = "start"
    /\ args.helpind
    /\ rv' = ExitCode(errorcnt)
    /\ pc' = "returned"
    /\ UNCHANGED <<sh, args, leftover, log, freed, cmdline, files, type, infile,
                   inout_file_count, errorcnt, ifd, mapping, kres, image,
                   image0, option, retval, biosvars>>

\* "If we don't have an input file already, we need one" and "Look for an
\* output file if we don't have one, just in case."
DoSignFindFiles ==
    /\ pc = "start"
    /\ ~args.helpind
    /\ IF infile = "" /\ leftover <= 0
       THEN \* "ERROR: missing input filename"
            /\ errorcnt' = errorcnt + 1
            /\ log' = log \cup {"missing_input"}
            /\ pc' = "done_label"
            /\ UNCHANGED <<infile, leftover, inout_file_count, option>>
       ELSE LET took_in == infile = ""
                left1 == IF took_in THEN leftover - 1 ELSE leftover
                took_out == option.outfile = "" /\ left1 > 0
            IN  /\ infile' = IF took_in THEN "in" ELSE infile
                /\ option' = [option EXCEPT !.outfile =
                                 IF took_out THEN "out" ELSE @]
                /\ leftover' = IF took_out THEN left1 - 1 ELSE left1
                /\ inout_file_count' = inout_file_count
                                        + (IF took_in THEN 1 ELSE 0)
                                        + (IF took_out THEN 1 ELSE 0)
                /\ pc' = "classify"
                /\ UNCHANGED <<errorcnt, log>>
    /\ UNCHANGED <<sh, args, freed, cmdline, files, type, ifd, mapping, rv,
                   kres, image, image0, retval, biosvars>>

\* Variant: the firmware options are looked at before the kernel options.
InferTypeFirmwareFirst(opt) ==
    IF opt.kernel_subkey # 0 \/ opt.fv_specified
    THEN "FILE_TYPE_RAW_FIRMWARE"
    ELSE IF opt.bootloader_data # 0 \/ opt.config_data # 0
            \/ opt.arch # "ARCH_UNSPECIFIED"
    THEN "FILE_TYPE_RAW_KERNEL"
    ELSE "FILE_TYPE_UNKNOWN"

\* "We may be able to infer the type based on the other args"
InferType(opt) ==
    IF opt.bootloader_data # 0 \/ opt.config_data # 0
       \/ opt.arch # "ARCH_UNSPECIFIED"
    THEN "FILE_TYPE_RAW_KERNEL"
    ELSE IF opt.kernel_subkey # 0 \/ opt.fv_specified
    THEN "FILE_TYPE_RAW_FIRMWARE"
    ELSE "FILE_TYPE_UNKNOWN"

\* "What are we looking at?": futil_file_type(infile, &option.type) reads
\* the input file when no --type was given.
DoSignClassify ==
    /\ pc = "classify"
    /\ IF type = "FILE_TYPE_UNKNOWN" /\ args.sniffed = "fail"
       THEN /\ errorcnt' = errorcnt + 1
            /\ log' = log \cup {"sniff", "sniff_failed"}
            /\ pc' = "done_label"
            /\ UNCHANGED type
       ELSE LET t1 == IF type = "FILE_TYPE_UNKNOWN" THEN args.sniffed
                      ELSE type
            IN  /\ type' = IF t1 = "FILE_TYPE_UNKNOWN" THEN InferType(option)
                            ELSE t1
                /\ log' = IF type = "FILE_TYPE_UNKNOWN"
                          THEN log \cup {"sniff"} ELSE log
                /\ pc' = "args"
                /\ UNCHANGED errorcnt
    /\ UNCHANGED <<sh, args, leftover, freed, cmdline, files, infile,
                   inout_file_count, ifd, mapping, rv, kres, image, image0,
                   option, retval, biosvars>>

\* Variant: the helper complains but counts nothing.
no_opt_if_Silent(expr) == 0

\* no_opt_if(expr, optname)
no_opt_if(expr) == IF expr THEN 1 ELSE 0

\* The errors the switch on option.type counts.
MissingOptions(t, opt) ==
    CASE t = "FILE_TYPE_PUBKEY" ->
            (IF opt.signprivate.id # 0 /\ opt.pem_signpriv THEN 1 ELSE 0)
            + (IF \/ opt.signprivate.id # 0 /\ opt.pem_algo_specified
                  \/ opt.pem_signpriv /\ ~opt.pem_algo_specified
               THEN 1 ELSE 0)
            + (IF opt.pem_external /\ ~opt.pem_signpriv THEN 1 ELSE 0)
      [] t = "FILE_TYPE_BIOS_IMAGE" ->
            no_opt_if(opt.signprivate.id = 0)
            + no_opt_if(opt.keyblock.id = 0)
            + no_opt_if(opt.kernel_subkey = 0)
      [] t = "FILE_TYPE_KERN_PREAMBLE" ->
            no_opt_if(opt.signprivate.id = 0)
      [] t = "FILE_TYPE_RAW_FIRMWARE" ->
            no_opt_if(opt.signprivate.id = 0)
            + no_opt_if(opt.keyblock.id = 0)
            + no_opt_if(opt.kernel_subkey = 0)
            + no_opt_if(~opt.version_specified)
      [] t = "FILE_TYPE_RAW_KERNEL" ->
            no_opt_if(opt.signprivate.id = 0)
            + no_opt_if(opt.keyblock.id = 0)
            + no_opt_if(~opt.version_specified)
            + no_opt_if(opt.bootloader_data = 0)
            + no_opt_if(opt.config_data = 0)
            + no_opt_if(opt.arch = "ARCH_UNSPECIFIED")
      [] OTHER -> 1  \* "Unable to sign type %s"

\* option.create_new_outfile after that switch.
CreateNewOutfile(t, opt, count) ==
    CASE t \in {"FILE_TYPE_PUBKEY", "FILE_TYPE_RAW_FIRMWARE",
                "FILE_TYPE_RAW_KERNEL"} -> TRUE
      [] t = "FILE_TYPE_KERN_PREAMBLE" -> opt.vblockonly \/ count > 1
      [] OTHER -> opt.create_new_outfile

\* "Check the arguments for the type of thing we want to sign", "Make sure
\* we have an output file if one is needed", the left-over arguments, and
\* if (errorcnt) goto done.
DoSignCheckArgs ==
    /\ pc = "args"
    /\ LET opt1 == [option EXCEPT !.create_new_outfile =
                        CreateNewOutfile(type, option, inout_file_count)]
           missing == MissingOptions(type, option)
           cnt == errorcnt + missing
           log1 == IF missing # 0 THEN log \cup {"bad_option"} ELSE log
       IN  IF opt1.outfile = "" /\ opt1.create_new_outfile
           THEN \* "Missing output filename"
                /\ option' = opt1
                /\ errorcnt' = cnt + 1
                /\ log' = log1 \cup {"missing_output"}
                /\ pc' = "done_label"
           ELSE LET cnt2 == IF leftover > 0 THEN cnt + 1 ELSE cnt
                IN  /\ option' = [opt1 EXCEPT !.outfile =
                                     IF @ = "" THEN infile ELSE @]
                    /\ errorcnt' = cnt2
                    /\ log' = IF leftover > 0
                              THEN log1 \cup {"too_many_arguments"}
                              ELSE log1
                    /\ pc' = IF cnt2 # 0 THEN "done_label" ELSE "open"
    /\ UNCHANGED <<sh, args, leftover, freed, cmdline, files, type, infile,
                   inout_file_count, ifd, mapping, rv, kres, image, image0,
                   retval, biosvars>>

\* The handler futil_file_type_sign calls for option.type.
Handler(t) ==
    CASE t = "FILE_TYPE_BIOS_IMAGE" -> "walk"
      [] t = "FILE_TYPE_KERN_PREAMBLE" -> "kern"
      [] t = "FILE_TYPE_RAW_FIRMWARE" -> "raw_fw"
      [] t = "FILE_TYPE_RAW_KERNEL" -> "raw_kern"
      [] t = "FILE_TYPE_PUBKEY" -> "pubkey"

\* open the file and futil_map_file it; then the handler is entered.  A
\* file that does not exist cannot be opened.
OpenAndMap(path, how, fs, outcome, copied) ==
    /\ outcome = "ok" => fs[path].exists
    /\ mapping' = how
    /\ infile' = path
    /\ files' = fs
    /\ CASE outcome = "open_fails" ->
               /\ errorcnt' = errorcnt + 1
               /\ log' = log \cup copied \cup {"open", "open_failed"}
               /\ pc' = "done_label"
               /\ UNCHANGED <<ifd, image, image0>>
         [] outcome = "map_fails" ->
               /\ ifd' = 3
               /\ errorcnt' = errorcnt + 1
               /\ log' = log \cup copied \cup {"open", "map", "map_failed"}
               /\ pc' = "done_label"
               /\ UNCHANGED <<image, image0>>
         [] outcome = "ok" ->
               /\ ifd' = 3
               /\ image' = fs[path].data
               /\ image0' = fs[path].data
               /\ log' = log \cup copied \cup {"open", "map", "handler"}
               /\ pc' = Handler(type)
               /\ UNCHANGED errorcnt

\* "The input is read-only, the output is write-only."
DoSignOpenRO ==
    /\ pc = "open"
    /\ option.create_new_outfile
    /\ \E outcome \in {"ok", "open_fails", "map_fails"} :
          OpenAndMap(infile, "MAP_RO", files, outcome, {})
    /\ UNCHANGED <<sh, args, leftover, freed, cmdline, type, inout_file_count, rv,
                   kres, option, retval, biosvars>>

\* Variant: the input is copied, but it is the input that is opened.
DoSignOpenRWInput ==
    /\ pc = "open"
    /\ ~option.create_new_outfile
    /\ \E outcome \in {"ok", "open_fails", "map_fails"} :
          IF inout_file_count > 1
          THEN OpenAndMap(infile, "MAP_RW",
                          [files EXCEPT ![option.outfile] = files[infile]],
                          outcome, {"copy"})
          ELSE OpenAndMap(option.outfile, "MAP_RW", files, outcome, {})
    /\ UNCHANGED <<sh, args, leftover, freed, cmdline, type, inout_file_count,
                   rv, kres, option, retval, biosvars>>

\* "We'll read-modify-write the output file"
DoSignOpenRW ==
    /\ pc = "open"
    /\ ~option.create_new_outfile
    /\ \E outcome \in {"ok", "open_fails", "map_fails"} :
          IF inout_file_count > 1
          THEN \* futil_copy_file_or_die(infile, option.outfile)
               OpenAndMap(option.outfile, "MAP_RW",
                          [files EXCEPT ![option.outfile] = files[infile]],
                          outcome, {"copy"})
          ELSE OpenAndMap(option.outfile, "MAP_RW", files, outcome, {})
    /\ UNCHANGED <<sh, args, leftover, freed, cmdline, type, inout_file_count, rv,
                   kres, option, retval, biosvars>>

\* ------------------------------------------------------------------------
\* The handlers that make a new file.
\* ------------------------------------------------------------------------
\* The number of cells of a buffer.
BufLen(img) == Cardinality(DOMAIN img)

\* ft_sign_raw_firmware; made and written say whether the library made the
\* signature and preamble, and whether WriteSomeParts succeeded.
FtSignRawFirmware ==
    /\ pc = "raw_fw"
    /\ pc' = "signed"
    /\ \E made \in BOOLEAN, written \in BOOLEAN :
          LET body_sig == CalculateSignature(image, 0, BufLen(image),
                                             option.signprivate)
              preamble == CreateFirmwarePreamble(option.version,
                              option.kernel_subkey, body_sig,
                              option.signprivate, option.flags)
          IN  IF made /\ written
              THEN /\ files' = [files EXCEPT ![option.outfile] =
                          WriteSomeParts(KeyBlockCells(option.keyblock),
                                         PreambleCells(preamble))]
                   /\ retval' = 0
              ELSE /\ retval' = 1
                   /\ UNCHANGED files
    /\ UNCHANGED <<sh, args, leftover, log, freed, cmdline, type, infile,
                   inout_file_count, errorcnt, ifd, mapping, rv, kres, image,
                   image0, option, biosvars>>

\* CreateKernelBlob: the command line, then the kernel.
CreateKernelBlob(img, config) ==
    [k \in 0 .. (BufLen(img) - 1) |->
        IF k = 0 THEN Cell("blob", config, 0, <<>>) ELSE img[k]]

\* ft_sign_raw_kernel; blob_ok, signed and written say whether
\* CreateKernelBlob, SignKernelBlob and WriteSomeParts succeeded.
FtSignRawKernel ==
    /\ pc = "raw_kern"
    /\ option.create_new_outfile
    /\ pc' = "signed"
    /\ \E blob_ok \in BOOLEAN, signed \in BOOLEAN, written \in BOOLEAN :
          LET kblob == CreateKernelBlob(image, option.config_data)
              preamble == SignKernelBlob(kblob, 0, BufLen(kblob),
                              option.version, option.kloadaddr,
                              option.signprivate, option.flags)
              vblock_data == VblockCells(option.keyblock, preamble,
                                         option.padding)
              kblob_data == [k \in 1 .. BufLen(kblob) |-> kblob[k - 1]]
          IN  IF blob_ok /\ signed /\ written
              THEN /\ files' = [files EXCEPT ![option.outfile] =
                          WriteSomeParts(vblock_data,
                              IF option.vblockonly THEN <<>> ELSE kblob_data)]
                   /\ retval' = 0
              ELSE /\ retval' = 1
                   /\ UNCHANGED files
    /\ UNCHANGED <<sh, args, leftover, log, freed, cmdline, type, infile,
                   inout_file_count, errorcnt, ifd, mapping, rv, kres, image,
                   image0, option, biosvars>>

\* The key read from --pem_signpriv, and the keyblock made around a public
\* key.
PemPrivateKey == [id |-> 3, siglen |-> 1]
NewKeyBlock == [id |-> 4, key_block_size |-> 1]

\* ft_sign_pubkey.  pem_read and written say whether PrivateKeyReadPem and
\* WriteSomeParts succeeded; created whether the library returned a
\* keyblock.  The keyblock is used without a test: with none the handler
\* reads through a NULL pointer and the program ends there.
FtSignPubkey ==
    /\ pc = "pubkey"
    /\ \E pem_read \in BOOLEAN, created \in BOOLEAN, written \in BOOLEAN :
          LET read_pem == option.pem_signpriv /\ ~option.pem_external
          IN  IF read_pem /\ ~pem_read
              THEN \* "Unable to read PEM signing key"
                   /\ retval' = 1
                   /\ pc' = "signed"
                   /\ UNCHANGED <<files, option>>
              ELSE /\ option' = IF read_pem
                                THEN [option EXCEPT
                                         !.signprivate = PemPrivateKey]
                                ELSE option
                   /\ IF ~created
                      THEN /\ pc' = "crashed"
                           /\ UNCHANGED <<files, retval>>
                      ELSE /\ pc' = "signed"
                           /\ IF written
                              THEN /\ files' =
                                       [files EXCEPT ![option.outfile] =
                                          WriteSomeParts(
                                             KeyBlockCells(NewKeyBlock),
                                             <<>>)]
                                   /\ retval' = 0
                              ELSE /\ retval' = 1
                                   /\ UNCHANGED files
    /\ UNCHANGED <<sh, args, leftover, log, freed, cmdline, type, infile,
                   inout_file_count, errorcnt, ifd, mapping, rv, kres, image,
                   image0, biosvars>>

\* ------------------------------------------------------------------------
\* do_sign, after the handler.
\* ------------------------------------------------------------------------
\* futil_unmap_file(ifd, MAP_RW, buf, buf_len): what is in a shared (MAP_RW)
\* mapping is in the file once it is unmapped.
UnmapFile(fs, path, how, buf) ==
    IF how = "MAP_RW" THEN [fs EXCEPT ![path].data = buf] ELSE fs

\* Variant: errorcnt = ... in place of errorcnt += ...
SetErrors(cnt, n) == n

\* errorcnt += n
AddErrors(cnt, n) == cnt + n

\* errorcnt += futil_file_type_sign(...); errorcnt += futil_unmap_file(...)
DoSignUnmap ==
    /\ pc = "signed"
    /\ \E unmap_errors \in 0 .. 1 :
          /\ errorcnt' = AddErrors(AddErrors(errorcnt, retval), unmap_errors)
          /\ log' = IF unmap_errors # 0 THEN log \cup {"unmap_failed"}
                    ELSE log
    /\ files' = UnmapFile(files, infile, mapping, image)
    /\ pc' = "done_label"
    /\ UNCHANGED <<sh, args, leftover, freed, cmdline, type, infile,
                   inout_file_count, ifd, mapping, rv, kres, image, image0,
                   option, retval, biosvars>>

\* The keys that done: frees.
FreedAtDone(opt) ==
    (IF opt.signprivate.id # 0 THEN {"signprivate"} ELSE {})
    \cup (IF opt.keyblock.id # 0 THEN {"keyblock"} ELSE {})
    \cup (IF opt.kernel_subkey # 0 THEN {"kernel_subkey"} ELSE {})

\* done: close ifd, free the keys, return !!errorcnt.
DoSignDone ==
    /\ pc = "done_label"
    /\ \E close_fails \in BOOLEAN :
          LET failed == ifd >= 0 /\ close_fails
              cnt == IF failed THEN errorcnt + 1 ELSE errorcnt
          IN  /\ errorcnt' = cnt
              /\ log' = IF failed THEN log \cup {"close_failed"} ELSE log
              /\ rv' = ExitCode(cnt)
    /\ freed' = FreedAtDone(option)
    /\ ifd' = -1
    /\ pc' = "returned"
    /\ UNCHANGED <<sh, args, leftover, cmdline, files, type, infile,
                   inout_file_count, mapping, kres, image, image0, option,
                   retval, biosvars>>

Next ==
    \/ DoSignHelp
    \/ DoSignFindFiles
    \/ DoSignClassify
    \/ DoSignCheckArgs
    \/ FtSignRawFirmware
    \/ FtSignRawKernel
    \/ FtSignPubkey
    \/ DoSignOpenRO
    \/ DoSignOpenRW
    \/ FtSignKernPreamble
    \/ DoSignUnmap
    \/ DoSignDone
    \/ WalkNotFound
    \/ WalkNoHandler
    \/ WalkFwMain
    \/ WalkFwPreamble
    \/ SignBiosNotValid
    \/ SignBiosDevKeysRequired
    \/ SignBiosChooseKeys
    \/ WriteNewPreambleA
    \/ WriteNewPreambleB
    \/ WriteLoemA
    \/ WriteLoemB
    \/ SignBiosAtEndReturn

Spec == Init /\ [][Next]_vars

\* ========================================================================
\* make_dev_firmware.sh
\* ========================================================================
\* The largest data key version tried.
MaxKeyVersion == 2

\* The text a command substitution yields: a decimal number, or nothing.
Num(n) == [num |-> TRUE, val |-> n]
Empty == [num |-> FALSE, val |-> 0]
Texts == {Empty} \cup {Num(n) : n \in 0 .. MaxKeyVersion}

\* A firmware image as the script sees it: the GBB's HWID (its words), root
\* key, recovery key and flags word (has_flags: the GBB is of a version
\* that has the flags field), the kind of keyblock in VBLOCK_A and its data
\* key version, and who signed the firmware.
ShImages ==
    [hwid : {<<>>, <<"X">>, <<"X", "DEV">>},
     rootkey : {"old_root"}, recoverykey : {"old_recovery"},
     has_flags : BOOLEAN, flags : {{}, {"0x01"}},
     keyblock : {"normal", "dev"},
     data_key_version : 0 .. MaxKeyVersion,
     signed_by : {"old"}]
NoFw == [hwid |-> <<>>, rootkey |-> "", recoverykey |-> "",
         has_flags |-> FALSE, flags |-> {}, keyblock |-> "",
         data_key_version |-> 0, signed_by |-> ""]

\* The command lines and surroundings of the script: --from and --to (""
\* for the live firmware), --mod_hwid, --mod_gbb_flags, the firmware read,
\* the data key version of firmware.keyblock in the keys folder and what
\* crossystem tpm_fwver >> 16 gives.
ShInputs ==
    {[pc |-> "main", FLAGS_from |-> f, FLAGS_to |-> t,
      FLAGS_mod_hwid |-> mh, FLAGS_mod_gbb_flags |-> mf,
      src |-> im, keys_version |-> k, tpm_version |-> tpm,
      IMAGE |-> NoFw, use_devfw_keyblock |-> FALSE,
      data_key_version |-> Empty, new_data_key_version |-> Empty,
      policy_done |-> FALSE,
      old_hwid |-> <<>>, new_hwid |-> <<>>,
      old_gbb_flags |-> {}, new_gbb_flags |-> {},
      out |-> {}, failed |-> {}, status |-> -1, written |-> NoFw] :
        f \in {"", "from.bin"}, t \in {"", "to.bin"},
        mh \in BOOLEAN, mf \in BOOLEAN, im \in ShImages, k \in Texts,
        tpm \in Texts}

\* exit n, and err_die of common_minimal.sh: the message, then exit 1.
ShExit(st, n) == [st EXCEPT !.pc = "exited", !.status = n]
err_die(st, msg) == ShExit([st EXCEPT !.out = @ \cup {msg}], 1)

\* A command failed for a reason outside the script.
ShFailed(st, tool) == [st EXCEPT !.failed = @ \cup {tool}]

\* The variables of do_sign; the script leaves them alone.
progvars ==
    <<args, leftover, log, freed, cmdline, files, type, infile,
      inout_file_count, errorcnt, ifd, mapping, rv, kres, image, image0,
      fmap, option, state, i, retval, end_retval, pc, akey, newpre, loem,
      trace>>

\* "Prerequisite check"
ShPrerequisites ==
    /\ sh.pc = "main"
    /\ \E ok \in BOOLEAN :
          sh' = IF ok THEN [sh EXCEPT !.pc = "wp"]
                ELSE ShExit(ShFailed(sh, "ensure_files_exist"), 1)
    /\ UNCHANGED progvars

\* "Checking software write protection status"
ShDisableWriteProtection ==
    /\ sh.pc = "wp"
    /\ \E ok \in BOOLEAN :
          sh' = IF sh.FLAGS_to # "" \/ ok
                THEN [sh EXCEPT !.pc = "read"]
                ELSE err_die(ShFailed(sh, "flashrom"),
                             "Write protection is still enabled.")
    /\ UNCHANGED progvars

\* "Pulling image to $IMAGE"
ShReadImage ==
    /\ sh.pc = "read"
    /\ \E ok \in BOOLEAN :
          sh' = IF ok THEN [sh EXCEPT !.pc = "backup", !.IMAGE = sh.src]
                ELSE err_die(ShFailed(sh, "read_image"),
                             "Failed to read image.")
    /\ UNCHANGED progvars

\* "Prepare to backup the file": under set -e a failing cp ends the script.
ShBackup ==
    /\ sh.pc = "backup"
    /\ \E ok \in BOOLEAN :
          sh' = IF ok THEN [sh EXCEPT !.pc = "detect"]
                ELSE ShExit(ShFailed(sh, "cp"), 1)
    /\ UNCHANGED progvars

\* "Detecting developer firmware keyblock", and gbb_utility -g --rootkey
\* (a simple command under set -e).
ShDetectKeyblock ==
    /\ sh.pc = "detect"
    /\ \E fmap_ok \in BOOLEAN, gbb_ok \in BOOLEAN :
          sh' = IF ~fmap_ok
                THEN err_die(ShFailed(sh, "dump_fmap"),
                             "Failed to extract firmware image.")
                ELSE IF ~gbb_ok
                THEN ShExit(ShFailed(sh, "gbb_utility -g"), 1)
                ELSE [sh EXCEPT !.pc = "versions",
                                !.use_devfw_keyblock =
                                    sh.IMAGE.keyblock = "dev"]
    /\ UNCHANGED progvars

\* "Extract firmware version and data key version".  From or to the live
\* system the version is crossystem's; without a number $(( >> 16 )) is
\* an arithmetic error, which ends the shell.  Otherwise it is read from
\* vbutil_firmware's output; local fw_info="$(...)" || err_die never dies,
\* as local returns 0, and the version is then empty.
ShVersions ==
    /\ sh.pc = "versions"
    /\ IF sh.FLAGS_to = "" \/ sh.FLAGS_from = ""
       THEN sh' = IF sh.tpm_version.num
                  THEN [sh EXCEPT !.pc = "policy",
                                  !.data_key_version = sh.tpm_version]
                  ELSE ShExit(ShFailed(sh, "crossystem"), 2)
       ELSE \E ok \in BOOLEAN :
               sh' = IF ok
                     THEN [sh EXCEPT !.pc = "policy",
                              !.data_key_version =
                                  Num(sh.IMAGE.data_key_version)]
                     ELSE [ShFailed(sh, "vbutil_firmware") EXCEPT
                              !.pc = "policy", !.data_key_version = Empty]
    /\ UNCHANGED progvars

\* Variant: -ge in place of -gt.
TestGe(a, b) ==
    IF ~a.num \/ ~b.num THEN 2 ELSE IF a.val >= b.val THEN 0 ELSE 1

\* [ "$a" -gt "$b" ]: status 0 when a > b, 1 when not, 2 when either is
\* not a number.
TestGt(a, b) ==
    IF ~a.num \/ ~b.num THEN 2 ELSE IF a.val > b.val THEN 0 ELSE 1

\* The rollback policy: new_data_key_version is read from the keyblock in
\* the keys folder, and the warning is printed if the test succeeds.
ShPolicy ==
    /\ sh.pc = "policy"
    /\ LET new_version == sh.keys_version
           warn == TestGt(sh.data_key_version, new_version) = 0
       IN  sh' = [sh EXCEPT !.pc = "resign",
                            !.new_data_key_version = new_version,
                            !.policy_done = TRUE,
                            !.out = IF warn
                                    THEN @ \cup {"Warning: firmware data key version"}
                                    ELSE @]
    /\ UNCHANGED progvars

\* Variant: a failing resign_firmwarefd.sh is reported, and the script goes
\* on.
ShResignGoOn ==
    /\ sh.pc = "resign"
    /\ \E cp_ok \in BOOLEAN, ok \in BOOLEAN :
          LET st == [sh EXCEPT !.out = @ \cup {"Preparing new firmware image..."}]
          IN  sh' = IF ~cp_ok
                    THEN ShExit(ShFailed(st, "cp"), 1)
                    ELSE IF ~ok
                    THEN [ShFailed(st, "resign_firmwarefd.sh") EXCEPT
                             !.pc = "hwid",
                             !.out = @ \cup {"Failed to re-sign firmware."}]
                    ELSE [st EXCEPT !.pc = "hwid",
                             !.IMAGE.signed_by =
                                 IF sh.use_devfw_keyblock
                                 THEN "dev_firmware" ELSE "firmware",
                             !.IMAGE.keyblock =
                                 IF sh.use_devfw_keyblock
                                 THEN "dev" ELSE "normal"]
    /\ UNCHANGED progvars

\* "Resign the firmware code (A/B) with new keys"
ShResign ==
    /\ sh.pc = "resign"
    /\ \E cp_ok \in BOOLEAN, ok \in BOOLEAN :
          LET st == [sh EXCEPT !.out = @ \cup {"Preparing new firmware image..."}]
          IN  sh' = IF ~cp_ok
                    THEN ShExit(ShFailed(st, "cp"), 1)
                    ELSE IF ~ok
                    THEN err_die(ShFailed(st, "resign_firmwarefd.sh"),
                                 "Failed to re-sign firmware.")
                    ELSE [st EXCEPT !.pc = "hwid",
                             !.IMAGE.signed_by =
                                 IF sh.use_devfw_keyblock
                                 THEN "dev_firmware" ELSE "firmware",
                             !.IMAGE.keyblock =
                                 IF sh.use_devfw_keyblock
                                 THEN "dev" ELSE "normal"]
    /\ UNCHANGED progvars

\* echo_dev_hwid: one trailing " DEV" is taken off, and " DEV" is put on.
echo_dev_hwid(hwid) ==
    LET hwid_no_dev == IF Len(hwid) > 1 /\ hwid[Len(hwid)] = "DEV"
                       THEN SubSeq(hwid, 1, Len(hwid) - 1)
                       ELSE hwid
    IN  Append(hwid_no_dev, "DEV")

\* "Extract current HWID", "Decide new HWID"
ShHwid ==
    /\ sh.pc = "hwid"
    /\ \E ok \in BOOLEAN :
          LET old_hwid == IF ok THEN sh.IMAGE.hwid ELSE <<>>
              st == IF ok THEN sh ELSE ShFailed(sh, "gbb_utility --get --hwid")
          IN  sh' = IF old_hwid = <<>>
                    THEN err_die(st, "Cannot find current HWID.")
                    ELSE [st EXCEPT !.pc = "gbb_flags",
                             !.old_hwid = old_hwid,
                             !.new_hwid = IF sh.FLAGS_mod_hwid
                                          THEN echo_dev_hwid(old_hwid)
                                          ELSE old_hwid]
    /\ UNCHANGED progvars

\* gbb_utility --get --flags prints the flags word of the GBB.
GbbGetFlags(img) == <<img.flags>>

\* gbb_utility --set --flags: a GBB without the field cannot take them.
GbbSetFlags(img, flags) ==
    IF img.has_flags THEN [ok |-> TRUE, img |-> [img EXCEPT !.flags = flags]]
    ELSE [ok |-> FALSE, img |-> img]

\* gbb_utility --set --hwid --rootkey --recoverykey
GbbSet(img, hwid, rootkey, recoverykey) ==
    [img EXCEPT !.hwid = hwid, !.rootkey = rootkey,
                !.recoverykey = recoverykey]

\* "Decide new GBB flags": old_gbb_flags | 0x30
ShGbbFlags ==
    /\ sh.pc = "gbb_flags"
    /\ \E ok \in BOOLEAN :
          LET printed == IF ok THEN GbbGetFlags(sh.IMAGE) ELSE <<>>
              st == IF ok THEN sh
                    ELSE ShFailed(sh, "gbb_utility --get --flags")
          IN  sh' = IF printed = <<>>
                    THEN err_die(st, "Cannot find GBB flags.")
                    ELSE [st EXCEPT !.pc = "gbb_set",
                             !.old_gbb_flags = printed[1],
                             !.new_gbb_flags = printed[1] \cup {"0x10", "0x20"}]
    /\ UNCHANGED progvars

\* Variant: a failing gbb_utility --set is only warned about.
ShGbbSetGoOn ==
    /\ sh.pc = "gbb_set"
    /\ \E ok \in BOOLEAN :
          sh' = IF ok
                THEN [sh EXCEPT !.pc = "gbb_set_flags",
                         !.IMAGE = GbbSet(sh.IMAGE, sh.new_hwid, "root_key",
                                          "recovery_key")]
                ELSE [ShFailed(sh, "gbb_utility --set") EXCEPT
                         !.pc = "gbb_set_flags",
                         !.out = @ \cup {"Failed to change GBB Data."}]
    /\ UNCHANGED progvars

\* "Replace GBB parts"
ShGbbSet ==
    /\ sh.pc = "gbb_set"
    /\ \E ok \in BOOLEAN :
          sh' = IF ok
                THEN [sh EXCEPT !.pc = "gbb_set_flags",
                         !.IMAGE = GbbSet(sh.IMAGE, sh.new_hwid, "root_key",
                                          "recovery_key")]
                ELSE err_die(ShFailed(sh, "gbb_utility --set"),
                             "Failed to change GBB Data.")
    /\ UNCHANGED progvars

\* Variant: the failure ends the script, as every other failure does.
ShFlagsNotSetDie(st) == err_die(st, "Warning: GBB flags can't be set.")

\* gbb_utility --set --flags ... || echo "Warning: GBB flags ... can't be
\* set."
ShFlagsNotSet(st) == [st EXCEPT !.out = @ \cup {"Warning: GBB flags can't be set."}]

\* "Old firmware does not support GBB flags, so let's make it an
\* exception."
ShGbbSetFlags ==
    /\ sh.pc = "gbb_set_flags"
    /\ \E ok \in BOOLEAN :
          LET next == [sh EXCEPT !.pc = "write"]
              set == GbbSetFlags(sh.IMAGE, sh.new_gbb_flags)
          IN  sh' = IF ~sh.FLAGS_mod_gbb_flags THEN next
                    ELSE IF ~ok
                    THEN ShFlagsNotSet(ShFailed(next, "gbb_utility --set --flags"))
                    ELSE IF ~set.ok THEN ShFlagsNotSet(next)
                    ELSE [next EXCEPT !.IMAGE = set.img]
    /\ UNCHANGED progvars

\* What write_image leaves in the destination: flashrom -w, or cp -f and
\* chmod a+r.  A write that fails leaves the destination as it was or
\* partly written; a failing chmod comes after the whole file was copied.
WriteOutcomes(to) ==
    {"ok", "nothing", "partial"} \cup (IF to # "" THEN {"chmod"} ELSE {})
Written(img, outcome) ==
    CASE outcome = "nothing" -> NoFw
      [] outcome = "partial" -> [img EXCEPT !.signed_by = "partly written"]
      [] OTHER -> img

\* "Check if we need to make backup file(s)" (a failure is only reported),
\* "Write the image", "Complete."
ShWriteImage ==
    /\ sh.pc = "write"
    /\ \E backup_ok \in BOOLEAN, outcome \in WriteOutcomes(sh.FLAGS_to) :
          LET st == IF backup_ok
                    THEN [sh EXCEPT !.out = @ \cup {"Backup of current firmware image is stored in:"}]
                    ELSE [sh EXCEPT !.out = @ \cup {"WARNING: Cannot create file"}]
              wr == [st EXCEPT !.written = Written(sh.IMAGE, outcome)]
          IN  sh' = IF outcome = "ok"
                    THEN ShExit([wr EXCEPT
                                    !.out = @ \cup {"now uses Developer Keys."}], 0)
                    ELSE err_die(ShFailed(wr, "write_image"),
                                 "Failed to write image.")
    /\ UNCHANGED progvars

InitScript ==
    /\ sh \in ShInputs
    /\ args = PlainArgs("FILE_TYPE_BIOS_IMAGE")
    /\ files = [p \in {"in", "out"} |-> NoFile]
    /\ fmap = MakeFmap(6, {})
    /\ option = DefaultOption
    /\ InitCommon

NextScript ==
    \/ ShPrerequisites
    \/ ShDisableWriteProtection
    \/ ShReadImage
    \/ ShBackup
    \/ ShDetectKeyblock
    \/ ShVersions
    \/ ShPolicy
    \/ ShResign
    \/ ShHwid
    \/ ShGbbFlags
    \/ ShGbbSet
    \/ ShGbbSetFlags
    \/ ShWriteImage

SpecScript == InitScript /\ [][NextScript]_vars

\* ========================================================================
\* Properties
\* ========================================================================
Bios == type = "FILE_TYPE_BIOS_IMAGE"
Kern == type = "FILE_TYPE_KERN_PREAMBLE"
\* ft_sign_bios has returned retval.
BiosReturned == Bios /\ pc = "signed"
Vblocks == {BIOS_FMAP_VBLOCK_A, BIOS_FMAP_VBLOCK_B}
FourAreas == {BIOS_FMAP_FW_MAIN_A, BIOS_FMAP_FW_MAIN_B,
              BIOS_FMAP_VBLOCK_A, BIOS_FMAP_VBLOCK_B}
FourValid == \A c \in FourAreas : state.area[c].is_valid = 1

\* The two bodies, at their lengths after the shrink and with the bytes of
\* the input, differ.
BodiesDiffer ==
    LET fw_a == state.area[BIOS_FMAP_FW_MAIN_A]
        fw_b == state.area[BIOS_FMAP_FW_MAIN_B]
    IN  \/ fw_a.len # fw_b.len
        \/ \E k \in 0 .. (fw_a.len - 1) :
              image0[fw_a.buf + k] # image0[fw_b.buf + k]

NoDevIdentity ==
    cmdline.devsignprivate.id = 0 \/ cmdline.devkeyblock.id = 0

\* The old preamble of VBLOCK c in the input parses / its fields.
Parsed0(c) ==
    /\ fmap[c].present
    /\ OldVblockParses(image0, fmap[c].area_offset, fmap[c].area_size)
    /\ image0[fmap[c].area_offset + image0[fmap[c].area_offset].b].t = "pre"
DataSize0(c) == OldDataSize(image0, fmap[c].area_offset)
Flags0(c) == OldFlags(image0, fmap[c].area_offset)

\* The cells of an area in an image.
AreaCells(img, c) ==
    [k \in 1 .. fmap[c].area_size |-> img[fmap[c].area_offset + k - 1]]

\* C1: when the FW_MAIN bodies differ (after the shrink) and the DEV private
\* key or the DEV keyblock was not given, ft_sign_bios returns an error and
\* the whole buffer, both VBLOCK areas included, is as it was.
C1_DevKeysRequired ==
    (BiosReturned /\ BodiesDiffer /\ NoDevIdentity)
        => (retval # 0 /\ image = image0)

\* C1's case: all four areas valid, bodies of equal length that differ in a
\* byte, --devsign given but no --devkeyblock.
C1_Witness ==
    /\ BiosReturned
    /\ FourValid
    /\ state.area[BIOS_FMAP_FW_MAIN_A].len = state.area[BIOS_FMAP_FW_MAIN_B].len
    /\ BodiesDiffer
    /\ cmdline.devsignprivate.id # 0
    /\ cmdline.devkeyblock.id = 0
    /\ retval # 0

\* Offset k of the image lies in none of GBB, VBLOCK_A, VBLOCK_B.
OutsideRewritable(k) ==
    \A c \in {BIOS_FMAP_GBB, BIOS_FMAP_VBLOCK_A, BIOS_FMAP_VBLOCK_B} :
        ~ /\ fmap[c].present
          /\ k >= fmap[c].area_offset
          /\ k < fmap[c].area_offset + fmap[c].area_size

\* C2: after ft_sign_bios every byte outside the GBB, VBLOCK_A and VBLOCK_B
\* areas equals the input byte, whatever the sizes of keyblock, preamble
\* and VBLOCK area.
C2_OutsideUnchanged ==
    BiosReturned =>
        \A k \in DOMAIN image : OutsideRewritable(k) => image[k] = image0[k]

\* C3: on any error return of ft_sign_bios neither VBLOCK has been written.
C3_NoWriteOnError ==
    (BiosReturned /\ retval # 0) =>
        /\ ~newpre[BIOS_FMAP_VBLOCK_A].written
        /\ ~newpre[BIOS_FMAP_VBLOCK_B].written
        /\ image = image0

\* C4: in read-write mapped mode, when the signing handler reported errors
\* the file keeps the bytes it had before signing.
C4_DiscardOnError ==
    (pc = "returned" /\ mapping = "MAP_RW" /\ retval # 0)
        => files[infile].data = image0

IsFwObservation(e) ==
    /\ e.op \in {"record", "valid", "shrink", "compare"}
    /\ e.c \in {BIOS_FMAP_FW_MAIN_A, BIOS_FMAP_FW_MAIN_B}

\* C5: every observation of FW_MAIN_A/B (record, mark valid, shrink,
\* compare) comes before the first write_new_preamble to a VBLOCK, and
\* every write to VBLOCK_A before the first write to VBLOCK_B.
C5_Ordering ==
    \A p, q \in 1 .. Len(trace) :
        p < q =>
            /\ ~(trace[p].op = "write" /\ IsFwObservation(trace[q]))
            /\ ~(trace[p] = Event("write", BIOS_FMAP_VBLOCK_B)
                 /\ trace[q] = Event("write", BIOS_FMAP_VBLOCK_A))

\* C5's case: a body was shrunk, the bodies were compared, both VBLOCKs were
\* written.
C5_Witness ==
    /\ \E p \in 1 .. Len(trace) : trace[p].op = "shrink"
    /\ \E p \in 1 .. Len(trace) : trace[p].op = "compare"
    /\ \E p \in 1 .. Len(trace) : trace[p] = Event("write", BIOS_FMAP_VBLOCK_A)
    /\ \E p \in 1 .. Len(trace) : trace[p] = Event("write", BIOS_FMAP_VBLOCK_B)

\* Slot c was signed and its old preamble declared less than the area.
ShrinkCase(c) ==
    /\ Bios
    /\ newpre[c].written
    /\ Parsed0(c)
    /\ DataSize0(c) < fmap[FwBodyOf(c)].area_size

\* C6: when the old preamble of VBLOCK_X declares data_size N below the
\* length of the FW_MAIN_X area, the signature made for slot X covers exactly
\* the first N bytes of FW_MAIN_X and the preamble written has data_size N.
C6_BodyLengthShrink ==
    \A c \in Vblocks :
        ShrinkCase(c) =>
            LET sig == newpre[c].preamble.body_signature
                fw == fmap[FwBodyOf(c)].area_offset
                n == DataSize0(c)
            IN  /\ sig.data_size = n
                /\ sig.digest = [k \in 1 .. n |-> image0[fw + k - 1].a]
                /\ image[fmap[c].area_offset
                         + newpre[c].keyblock.key_block_size].a = n

\* C6's case: slot B shrunk and signed while slot A was signed at full length.
C6_Witness ==
    /\ ShrinkCase(BIOS_FMAP_VBLOCK_B)
    /\ newpre[BIOS_FMAP_VBLOCK_A].written
    /\ ~Parsed0(BIOS_FMAP_VBLOCK_A)

\* C7: in a signed BIOS image the flags of the preamble written to VBLOCK_X
\* are the --flags value when --flags was given, and otherwise the flags of
\* the old preamble of VBLOCK_X when that parses.
C7_FlagsPerSlot ==
    \A c \in Vblocks :
        (BiosReturned /\ retval = 0 /\ newpre[c].written) =>
            IF cmdline.flags_specified
            THEN newpre[c].preamble.flags = cmdline.flags
            ELSE Parsed0(c) => newpre[c].preamble.flags = Flags0(c)

\* VBLOCK c was written with this key and keyblock.
WrittenWith(c, key, keyblock) ==
    /\ newpre[c].written
    /\ newpre[c].signkey = key
    /\ newpre[c].keyblock = keyblock
    /\ newpre[c].preamble.signer = key.id
    /\ newpre[c].preamble.body_signature.signer = key.id
    /\ image[fmap[c].area_offset] = KeyBlockCells(keyblock)[1]

\* C8: identical bodies: both VBLOCKs get the normal key and keyblock;
\* different bodies and a DEV identity: VBLOCK_A gets the DEV key and
\* keyblock; every successful run writes VBLOCK_B with the normal ones.
C8_SlotKeys ==
    /\ \A c \in Vblocks :
          (Bios /\ newpre[c].written /\ ~BodiesDiffer) =>
              WrittenWith(c, NormalPrivateKey, NormalKeyBlock)
    /\ (Bios /\ newpre[BIOS_FMAP_VBLOCK_A].written /\ BodiesDiffer) =>
          WrittenWith(BIOS_FMAP_VBLOCK_A, DevPrivateKey, DevKeyBlock)
    /\ (BiosReturned /\ retval = 0) =>
          /\ WrittenWith(BIOS_FMAP_VBLOCK_B, NormalPrivateKey, NormalKeyBlock)
          /\ newpre[BIOS_FMAP_VBLOCK_A].written

\* C8's case: a successful run over different bodies.
C8_Witness ==
    /\ BiosReturned
    /\ retval = 0
    /\ BodiesDiffer
    /\ WrittenWith(BIOS_FMAP_VBLOCK_A, DevPrivateKey, DevKeyBlock)

\* sign_bios_at_end has made its first test.
AfterWalk == Bios /\ i = NUM_BIOS_COMPONENTS /\ pc # "walk"

\* C9: when one of the four areas is not valid at the end of the walk,
\* sign_bios_at_end returns an error, no byte of the image and no LOEM file
\* is written; a missing GBB alone stops nothing.
C9_LayoutIncomplete ==
    /\ (AfterWalk /\ ~FourValid) =>
          /\ pc \in {"signed", "done_label", "returned"}
          /\ retval # 0
          /\ image = image0
          /\ \A c \in Vblocks : ~newpre[c].written /\ ~loem[c].written
    /\ (AfterWalk /\ FourValid) =>
          \E p \in 1 .. Len(trace) : trace[p].op = "compare"

\* C9's case: LOEM files were asked for, the FMAP has all areas but a
\* handler failed, and sign_bios_at_end has returned.
C9_Witness ==
    /\ BiosReturned
    /\ ~FourValid
    /\ \A c \in Components : fmap[c].present
    /\ cmdline.loemid

\* C10: resigning a kernel partition passes the old preamble's
\* body_load_address to the signer and stores it in the new preamble,
\* whatever --kloadaddr says.
C10_LoadAddressKept ==
    (Kern /\ kres.done) =>
        LET old == KPartPreamble(image0).body_load_address
            at == kres.keyblock.key_block_size
        IN  /\ kres.load_address = old
            /\ kres.preamble.body_load_address = old
            /\ (retval = 0 /\ ~option.create_new_outfile) => image[at].b = old
            /\ (retval = 0 /\ option.create_new_outfile) =>
                  files[option.outfile].data[at].b = old

\* C10's case: --kloadaddr differs from the old address and the partition
\* was resigned in place.
C10_Witness ==
    /\ Kern
    /\ kres.done
    /\ pc = "returned"
    /\ rv = 0
    /\ ~option.create_new_outfile
    /\ cmdline.kloadaddr # KPartPreamble(image0).body_load_address

\* The flags an existing kernel preamble carries: those of its flags field,
\* and 0 when its header is older than the flags field.
ExistingKernelFlags(preamble) ==
    IF preamble.has_flags = 1 THEN preamble.flags ELSE 0

\* C11: a resigned kernel partition gets the keyblock, version and flags
\* the caller gave, and for each one not given that of the existing
\* partition; its command line is replaced only when --config is given.
C11_ResignAttributes ==
    (Kern /\ kres.done) =>
        LET old == KPartPreamble(image0)
            new == kres.preamble
        IN  /\ kres.keyblock = IF cmdline.keyblock.id # 0
                               THEN cmdline.keyblock
                               ELSE KPartKeyBlock(image0)
            /\ new.kernel_version = IF cmdline.version_specified
                                    THEN cmdline.version
                                    ELSE old.kernel_version
            /\ new.flags = IF cmdline.flags_specified
                           THEN cmdline.flags
                           ELSE ExistingKernelFlags(old)
            /\ image[PadCells] =
                  IF cmdline.config_data # 0
                  THEN Cell("blob", cmdline.config_data, 0, <<>>)
                  ELSE image0[PadCells]
            /\ (retval = 0 /\ ~option.create_new_outfile) =>
                  /\ image[0] = KeyBlockCells(kres.keyblock)[1]
                  /\ image[kres.keyblock.key_block_size].a = new.kernel_version
                  /\ image[kres.keyblock.key_block_size + 1].a = new.flags

\* C11's case: an in-place resign that gives a new version and nothing
\* else, of a partition whose preamble has version 2 and flags 1.
C11_Witness ==
    /\ Kern
    /\ kres.done
    /\ retval = 0
    /\ ~option.create_new_outfile
    /\ cmdline.version_specified
    /\ ~cmdline.flags_specified
    /\ cmdline.keyblock.id = 0
    /\ cmdline.config_data = 0
    /\ kres.old.has_flags = 1
    /\ kres.old.flags = 1
    /\ kres.old.kernel_version = 2

\* C12: after a successful BIOS signing with a LOEM id, the file of each
\* slot holds the whole VBLOCK area as it is in the signed image, byte for
\* byte; without a LOEM id no such file is written.
C12_LoemParity ==
    /\ (BiosReturned /\ retval = 0 /\ cmdline.loemid) =>
          \A c \in Vblocks :
              /\ loem[c].written
              /\ Len(loem[c].data) = fmap[c].area_size
              /\ loem[c].data = AreaCells(image, c)
    /\ (Bios /\ ~cmdline.loemid) => \A c \in Vblocks : ~loem[c].written

\* C12's case: a successful signing with a LOEM id that rewrote both
\* VBLOCKs, slot A with the DEV keyblock.
C12_Witness ==
    /\ BiosReturned
    /\ retval = 0
    /\ cmdline.loemid
    /\ newpre[BIOS_FMAP_VBLOCK_A].keyblock = DevKeyBlock
    /\ newpre[BIOS_FMAP_VBLOCK_B].written
    /\ loem[BIOS_FMAP_VBLOCK_A].written
    /\ loem[BIOS_FMAP_VBLOCK_A].data # AreaCells(image0, BIOS_FMAP_VBLOCK_A)

\* ------------------------------------------------------------------------
\* make_dev_firmware.sh: the rollback policy and the GBB of old firmware
\* ------------------------------------------------------------------------
RollbackWarning == "Warning: firmware data key version" \in sh.out

\* C13: whenever the platform's data key version is greater than that of
\* the new keyblock the rollback warning is printed (and it is printed in
\* no other case); whatever the two versions are, the policy step does not
\* end the script, which goes on to resign the firmware.
C13_RollbackPolicy ==
    sh.policy_done =>
        /\ RollbackWarning <=>
              /\ sh.data_key_version.num
              /\ sh.keys_version.num
              /\ sh.data_key_version.val > sh.keys_version.val
        /\ \/ sh.pc = "resign"
           \/ "Preparing new firmware image..." \in sh.out

\* The warning was printed and the firmware was then resigned.
C13_Witness ==
    /\ sh.pc = "hwid"
    /\ RollbackWarning
    /\ sh.data_key_version.val > sh.keys_version.val
    /\ sh.IMAGE.signed_by # "old"

\* The HWID the script is to write.
ShExpectedHwid ==
    IF sh.FLAGS_mod_hwid THEN echo_dev_hwid(sh.src.hwid) ELSE sh.src.hwid

\* C14: for an image whose GBB has no flags field, with the modification
\* of the GBB flags asked for and no command failing otherwise, the script
\* prints a warning and exits with status 0, and the image written has the
\* new root key, the new recovery key and the new HWID.
C14_LegacyGbb ==
    /\ sh.pc = "exited"
    /\ ~sh.src.has_flags
    /\ sh.FLAGS_mod_gbb_flags
    /\ sh.src.hwid # <<>>
    /\ sh.failed = {}
    => /\ sh.status = 0
       /\ "Warning: GBB flags can't be set." \in sh.out
       /\ sh.written.rootkey = "root_key"
       /\ sh.written.recoverykey = "recovery_key"
       /\ sh.written.hwid = ShExpectedHwid
       /\ sh.written.flags = sh.src.flags

\* Such a run, with a HWID that got its DEV suffix.
C14_Witness ==
    /\ sh.pc = "exited"
    /\ ~sh.src.has_flags
    /\ sh.FLAGS_mod_gbb_flags
    /\ sh.failed = {}
    /\ sh.status = 0
    /\ "Warning: GBB flags can't be set." \in sh.out
    /\ sh.written.rootkey = "root_key"
    /\ sh.written.hwid = <<"X", "DEV">>
    /\ sh.src.hwid = <<"X">>

\* ------------------------------------------------------------------------
\* do_sign: exit code, argument errors, keys, type
\* ------------------------------------------------------------------------
\* What do_sign does to the file it signs, and the error messages.
SigningIO == {"copy", "open", "map", "handler"}
ArgMessages == {"bad_option", "missing_output", "too_many_arguments"}
ErrorMessages ==
    ArgMessages \cup {"missing_input", "sniff_failed", "open_failed",
                      "map_failed", "unmap_failed", "close_failed"}

\* An error was counted: by the getopt loop, with a message, or by the
\* handler.
ErrorSeen ==
    args.parse_errors > 0 \/ log \cap ErrorMessages # {} \/ retval # 0

\* C15: do_sign returns 0 if and only if no error was counted while parsing
\* the arguments, opening and mapping, signing, unmapping and closing, and 1
\* otherwise; a warning about an existing VBLOCK does not count.
C15_ExitCode ==
    pc = "returned" => /\ rv \in {0, 1}
                       /\ rv = 0 <=> ~ErrorSeen

\* A BIOS image whose VBLOCK_A held no valid keyblock (a warning) was signed
\* and do_sign returned 0.
C15_Witness ==
    /\ pc = "returned"
    /\ rv = 0
    /\ Bios
    /\ fmap[BIOS_FMAP_VBLOCK_A].present
    /\ ~Parsed0(BIOS_FMAP_VBLOCK_A)
    /\ newpre[BIOS_FMAP_VBLOCK_A].written

\* The getopt loop or the argument checks counted an error.
BadArgs == args.parse_errors > 0 \/ log \cap ArgMessages # {}

\* do_sign got as far as its argument checks.
ArgsChecked ==
    /\ ~args.helpind
    /\ ~(args.infile = "" /\ args.positional = 0)
    /\ ~(args.type_opt = "FILE_TYPE_UNKNOWN" /\ args.sniffed = "fail")
    /\ pc \notin {"start", "classify", "args"}

\* The options each type needs, and those the command line gave.
RequiredOptions(t) ==
    CASE t = "FILE_TYPE_BIOS_IMAGE" -> {"signprivate", "keyblock", "kernelkey"}
      [] t = "FILE_TYPE_KERN_PREAMBLE" -> {"signprivate"}
      [] t = "FILE_TYPE_RAW_FIRMWARE" ->
            {"signprivate", "keyblock", "kernelkey", "version"}
      [] t = "FILE_TYPE_RAW_KERNEL" ->
            {"signprivate", "keyblock", "version", "bootloader", "config",
             "arch"}
      [] OTHER -> {}
GivenOptions ==
    (IF cmdline.signprivate.id # 0 THEN {"signprivate"} ELSE {})
    \cup (IF cmdline.keyblock.id # 0 THEN {"keyblock"} ELSE {})
    \cup (IF cmdline.kernel_subkey # 0 THEN {"kernelkey"} ELSE {})
    \cup (IF cmdline.version_specified THEN {"version"} ELSE {})
    \cup (IF cmdline.bootloader_data # 0 THEN {"bootloader"} ELSE {})
    \cup (IF cmdline.config_data # 0 THEN {"config"} ELSE {})
    \cup (IF cmdline.arch # "ARCH_UNSPECIFIED" THEN {"arch"} ELSE {})
    \cup (IF cmdline.pem_signpriv THEN {"pem_signpriv"} ELSE {})
    \cup (IF cmdline.pem_algo_specified THEN {"pem_algo"} ELSE {})
    \cup (IF cmdline.pem_external THEN {"pem_external"} ELSE {})
PemConflicts ==
    {c \in {"both_keys", "pem_algo", "pem_external"} :
        \/ c = "both_keys" /\ {"signprivate", "pem_signpriv"} \subseteq GivenOptions
        \/ c = "pem_algo"
              /\ \/ {"signprivate", "pem_algo"} \subseteq GivenOptions
                 \/ "pem_signpriv" \in GivenOptions
                       /\ "pem_algo" \notin GivenOptions
        \/ c = "pem_external" /\ "pem_external" \in GivenOptions
              /\ "pem_signpriv" \notin GivenOptions}
Signable ==
    {"FILE_TYPE_PUBKEY", "FILE_TYPE_BIOS_IMAGE", "FILE_TYPE_KERN_PREAMBLE",
     "FILE_TYPE_RAW_FIRMWARE", "FILE_TYPE_RAW_KERNEL"}

\* The argument errors there are to report once the checks have run.
ArgErrors ==
    Cardinality(RequiredOptions(type) \ GivenOptions)
    + (IF type = "FILE_TYPE_PUBKEY" THEN Cardinality(PemConflicts) ELSE 0)
    + (IF type \notin Signable THEN 1 ELSE 0)
    + (IF option.outfile = "" THEN 1 ELSE 0)
    + (IF leftover > 0 THEN 1 ELSE 0)

\* C16 as stated: once the getopt loop or the argument checks counted an
\* error, do_sign has never opened, mapped or copied the input or output
\* file, nor called a handler.
C16_NoFileAccess ==
    BadArgs => log \cap (SigningIO \cup {"sniff"}) = {}

\* C16, amended: once the getopt loop or the argument checks counted an
\* error, do_sign has not copied the input to the output, has not opened or
\* mapped a file for signing and has called no handler (the input may have
\* been read to find its type); and every error the checks found is
\* counted, not only the first.
C16_NoSigningAfterBadArgs ==
    /\ BadArgs => log \cap SigningIO = {}
    /\ ArgsChecked /\ BadArgs => errorcnt = args.parse_errors + ArgErrors

\* The input was read for its type, three options were found missing and
\* do_sign returned 1 without signing.
C16_Witness ==
    /\ pc = "returned"
    /\ rv = 1
    /\ BadArgs
    /\ ArgsChecked
    /\ "sniff" \in log
    /\ errorcnt >= 3

\* The keys the getopt loop loaded.
LoadedKeys ==
    (IF cmdline.signprivate.id # 0 THEN {"signprivate"} ELSE {})
    \cup (IF cmdline.keyblock.id # 0 THEN {"keyblock"} ELSE {})
    \cup (IF cmdline.kernel_subkey # 0 THEN {"kernel_subkey"} ELSE {})
    \cup (IF cmdline.devsignprivate.id # 0 THEN {"devsignprivate"} ELSE {})
    \cup (IF cmdline.devkeyblock.id # 0 THEN {"devkeyblock"} ELSE {})

\* C17: when do_sign returns, on any path, every key it loaded has been
\* released.
C17_KeysReleased ==
    pc = "returned" => LoadedKeys \subseteq freed

\* The type the rules of classification give.
ClassifiedType ==
    IF args.type_opt # "FILE_TYPE_UNKNOWN" THEN args.type_opt
    ELSE IF args.sniffed # "FILE_TYPE_UNKNOWN" THEN args.sniffed
    ELSE IF {"bootloader", "config", "arch"} \cap GivenOptions # {}
    THEN "FILE_TYPE_RAW_KERNEL"
    ELSE IF "kernelkey" \in GivenOptions \/ cmdline.fv_specified
    THEN "FILE_TYPE_RAW_FIRMWARE"
    ELSE "FILE_TYPE_UNKNOWN"

\* C18: the type signed is the --type given, else the type found in the
\* file, else (that being unknown) raw kernel when --bootloader, --config or
\* --arch was given, else raw firmware when --kernelkey or --fv was; a type
\* that is still unknown, or that sign has no handler for, is refused with
\* an error and nothing is signed.
C18_TypeClassification ==
    ArgsChecked =>
        /\ type = ClassifiedType
        /\ type \notin Signable =>
              /\ "bad_option" \in log
              /\ "handler" \notin log
              /\ pc = "returned" => rv = 1

\* A file of unknown contents, given with --config and --kernelkey, was
\* signed as a raw kernel; do_sign returned 0.
C18_Witness ==
    /\ pc = "returned"
    /\ rv = 0
    /\ args.type_opt = "FILE_TYPE_UNKNOWN"
    /\ args.sniffed = "FILE_TYPE_UNKNOWN"
    /\ {"config", "kernelkey"} \subseteq GivenOptions
    /\ type = "FILE_TYPE_RAW_KERNEL"
    /\ files["out"].exists

\* The FW_MAIN area of a slot.
SlotBody(c) ==
    IF c = BIOS_FMAP_VBLOCK_A THEN BIOS_FMAP_FW_MAIN_A ELSE BIOS_FMAP_FW_MAIN_B

\* The walk has handled VBLOCK c, and the slot's two areas are in the FMAP.
SlotHandled(c) ==
    /\ Bios
    /\ pc \notin {"args", "open"}
    /\ i > c
    /\ fmap[c].present
    /\ fmap[SlotBody(c)].present

\* C19: the length of FW_MAIN_X is shrunk only if the keyblock in VBLOCK_X
\* verifies and the preamble parses; when one of them does not, FW_MAIN_X
\* keeps the length of its area, VBLOCK_X is marked valid, the handler
\* counts no error, and the slot is signed over the whole area.
C19_ShrinkOnlyIfParsed ==
    \A c \in Vblocks :
        (SlotHandled(c) /\ ~Parsed0(c)) =>
            /\ state.area[SlotBody(c)].len = fmap[SlotBody(c)].area_size
            /\ state.area[c].is_valid = 1
            /\ newpre[c].written =>
                  newpre[c].preamble.body_signature.data_size
                      = fmap[SlotBody(c)].area_size

\* How far a slot has come: 0 Unseen, 1 RegionFound (VBLOCK recorded),
\* 3 BodySized (VBLOCK accepted, body length settled), 4 Signed.
\* PreambleParsed (2) lies inside the handler's call.
SlotRank(st, np, c) ==
    IF np[c].written THEN 4
    ELSE IF st.area[c].is_valid = 1 THEN 3
    ELSE IF st.area[c].buf # -1 THEN 1
    ELSE 0

\* C20: a slot never moves backwards, becomes Signed only from BodySized,
\* stays as it is once Signed, and the length of its body does not change
\* once it is BodySized.
C20_SlotStateMachine ==
    [][\A c \in Vblocks :
          LET before == SlotRank(state, newpre, c)
              after == SlotRank(state', newpre', c)
          IN  /\ after >= before
              /\ (after = 4 /\ before # 4) => before = 3
              /\ before = 4 => newpre'[c] = newpre[c]
              /\ before >= 3 =>
                    state'.area[SlotBody(c)].len = state.area[SlotBody(c)].len
    ]_vars

\* C20's case: both slots Signed, slot B over a body that was shrunk while
\* slot A was already BodySized.
C20_Witness ==
    /\ Bios
    /\ SlotRank(state, newpre, BIOS_FMAP_VBLOCK_A) = 4
    /\ SlotRank(state, newpre, BIOS_FMAP_VBLOCK_B) = 4
    /\ state.area[BIOS_FMAP_FW_MAIN_B].len
          < fmap[BIOS_FMAP_FW_MAIN_B].area_size
    /\ state.area[BIOS_FMAP_FW_MAIN_A].len
          = fmap[BIOS_FMAP_FW_MAIN_A].area_size

\* ------------------------------------------------------------------------
\* The body length and its area
\* ------------------------------------------------------------------------
\* The old preamble of VBLOCK c declares a body larger than its FW_MAIN area.
Oversize0(c) ==
    Parsed0(c) /\ DataSize0(c) > fmap[SlotBody(c)].area_size

\* C21: the recorded length of each FW_MAIN area never exceeds the length
\* of its FMAP area; a VBLOCK whose old preamble declares more than that
\* makes its handler count an error, leaves the FW_MAIN length as it was
\* and the VBLOCK not valid, no VBLOCK is written, and the run ends in
\* error.
C21_BodyWithinArea ==
    /\ \A c \in {BIOS_FMAP_FW_MAIN_A, BIOS_FMAP_FW_MAIN_B} :
          state.area[c].len <= fmap[c].area_size
    /\ \A c \in Vblocks :
          (SlotHandled(c) /\ Oversize0(c)) =>
              /\ state.area[SlotBody(c)].len = fmap[SlotBody(c)].area_size
              /\ state.area[c].is_valid = 0
              /\ retval > 0
              /\ \A v \in Vblocks : ~newpre[v].written /\ ~loem[v].written
              /\ image = image0
              /\ pc = "returned" => rv = 1

\* do_sign has returned from an image whose VBLOCK_B declared too long a
\* body while VBLOCK_A shrank its own.
C21_Witness ==
    /\ pc = "returned"
    /\ SlotHandled(BIOS_FMAP_VBLOCK_B)
    /\ Oversize0(BIOS_FMAP_VBLOCK_B)
    /\ Parsed0(BIOS_FMAP_VBLOCK_A)
    /\ state.area[BIOS_FMAP_FW_MAIN_A].len
          < fmap[BIOS_FMAP_FW_MAIN_A].area_size

\* ------------------------------------------------------------------------
\* Input and output files
\* ------------------------------------------------------------------------
\* An output file other than the input was named, and the file is a BIOS
\* image or a kernel partition.
OutputNamed ==
    /\ type \in {"FILE_TYPE_BIOS_IMAGE", "FILE_TYPE_KERN_PREAMBLE"}
    /\ option.outfile = "out"

\* C22: with an output file other than the input, for a BIOS image or a
\* kernel partition, no step changes the input file: the input is mapped
\* read-only when a new file is made, and otherwise it is first copied to
\* the output, which alone is opened read-write and mapped.
C22_InputNeverModified ==
    [][OutputNamed =>
          /\ files'["in"] = files["in"]
          /\ mapping' = "MAP_RO" =>
                infile' = "in" /\ option'.create_new_outfile
          /\ mapping' = "MAP_RW" =>
                infile' = "out" /\ "copy" \in log'
                /\ ~option'.create_new_outfile]_vars

\* A BIOS image was signed into the output file: the input still holds
\* what was read from it, the output differs.
C22_Witness ==
    /\ pc = "returned"
    /\ rv = 0
    /\ Bios
    /\ OutputNamed
    /\ mapping = "MAP_RW"
    /\ files["in"].data = image0
    /\ files["out"].exists
    /\ files["out"].data # image0

\* ------------------------------------------------------------------------
\* make_dev_firmware.sh: the order of its steps, and the destination
\* ------------------------------------------------------------------------
\* The working image was resigned; its GBB got the new keys and HWID; the
\* flags update was tried (done, or warned about).
ShResigned == sh.IMAGE.signed_by \in {"firmware", "dev_firmware"}
ShGbbReplaced ==
    sh.IMAGE.rootkey = "root_key" /\ sh.IMAGE.recoverykey = "recovery_key"
ShFlagsTried ==
    \/ {"0x10", "0x20"} \subseteq sh.IMAGE.flags
    \/ "Warning: GBB flags can't be set." \in sh.out

\* C23: the GBB's root key, recovery key and HWID are replaced only in an
\* image that resign_firmwarefd.sh has resigned successfully, and the GBB
\* flags are updated (or the update is tried) only after that replacement.
C23_ResignBeforeGbb ==
    /\ sh.IMAGE # NoFw =>
          /\ \/ sh.IMAGE.rootkey # sh.src.rootkey
             \/ sh.IMAGE.recoverykey # sh.src.recoverykey
             \/ sh.IMAGE.hwid # sh.src.hwid
             => ShResigned /\ ShGbbReplaced
          /\ sh.IMAGE.flags # sh.src.flags => ShFlagsTried
    /\ ShFlagsTried => ShResigned /\ ShGbbReplaced
    /\ sh.pc \in {"gbb_set_flags", "write"} => ShResigned /\ ShGbbReplaced
    /\ sh.pc \in {"hwid", "gbb_flags", "gbb_set"} => ShResigned

\* The script has finished: resigned with the developer keyblock, new GBB
\* keys, flags updated.
C23_Witness ==
    /\ sh.pc = "exited"
    /\ sh.status = 0
    /\ sh.written.signed_by = "dev_firmware"
    /\ sh.written.rootkey = "root_key"
    /\ {"0x10", "0x20"} \subseteq sh.written.flags

\* The steps the destination depends on.
ShNeeded == {"read_image", "resign_firmwarefd.sh", "gbb_utility --set"}

\* The script is as C24 wants it: a step it depends on has failed only if
\* the script has exited with a status other than 0 and the destination is
\* unwritten; and the destination is written only from the resigned
\* working image with its new GBB, the script being over.
ShDestinationSafe ==
    /\ sh.failed \cap ShNeeded # {} =>
          sh.pc = "exited" /\ sh.status > 0 /\ sh.written = NoFw
    /\ sh.written # NoFw =>
          /\ sh.pc = "exited"
          /\ sh.IMAGE # NoFw /\ ShResigned /\ ShGbbReplaced
          /\ sh.status = 0 => sh.written = sh.IMAGE

====
